---- MODULE Spec2Model ----
(***************************************************************************)
(* Model of CollectorManager (src/collector_manager.py): one worker runs   *)
(* run_batch_mode over an ordered artifact list.  Every external call      *)
(* (file system, build tool, WinRM command, SFTP transfer) is a            *)
(* nondeterministic choice over the results the call can give.             *)
(***************************************************************************)
EXTENDS Integers, Sequences, FiniteSets, TLC

\* ---------------------------------------------------------------- bounds
MaxArtifacts == 3
MaxSize == 2
MaxZips == 3
MaxLines == 2
MaxTemplate == 4
MaxDepth == 2
MaxMessages == 3
MaxName == 3
MaxNest == 2
MaxWorkers == 2
MaxBuilds == 3
MaxOps == 3

Names == {"A.B", "C.D"}
Sizes == 1..MaxSize
Digests == {"d1", "d2"}

\* The per-artifact steps, in the order of process_single_artifact and
\* push_and_execute_collector.
StepOrder == <<"spec", "build", "push", "exec", "check_log", "pull_log", "verify">>

VARIABLES
    self_mode,        \* self.mode, given to CollectorManager.__init__
    artifacts,        \* the artifact list given to run_batch_mode
    build_collectors, \* the build_collectors flag
    pc,               \* position of the worker
    idx,              \* position in the artifact list of the for loop
    overall_success,  \* run_batch_mode's local
    result,           \* run_batch_mode's return value: "none" until it returns, then "True" or "False"
    status,           \* self.status
    winrm_session,    \* TRUE when self.winrm_session is set
    setup_done,       \* the run got past cleaning and connection initialisation
    entered,          \* positions for which process_single_artifact was entered
    rets,             \* return values of process_single_artifact, by position
    cur,              \* what happened to the artifact being processed
    remoteLog,        \* remote Collector_<name>.log files: name -> writer position (0: absent)
    remoteBundles,    \* positions whose Collection-*.zip is on the remote host
    runtime,          \* local ./runtime directory
    batch,            \* batch-level pull / processing calls and their results
    zips,             \* process_files: the archives of the input directory, in glob order
    pmode,            \* process_files: its mode argument
    pf,               \* process_files: what the call did and returned
    results,          \* an extracted bundle's results directory: file name -> file
    system_info,      \* the SystemInfo extracted from the bundle's basic information
    bmode,            \* "collection" (CollectorManager methods) or "zip" (process_zip_files functions)
    last,             \* the last normalisation step applied to the bundle and what it did
    repeated,         \* the step applied before it was the same step
    template,         \* SpecFileGenerator: the template file
    spec_file,        \* SpecFileGenerator: the last create_*spec_file call and its result
    tree,             \* an extracted directory tree: name -> file, or directory with its entries
    stream,           \* the status stream: status['messages'], progress_queue, the
                      \* update_status calls under way and the last get_status answer
    file_name,        \* get_source_type: its argument
    doc,              \* extract_system_info: the basic-information document
    profile,          \* a profile / Architectury run: process_profile_artifacts
    web,              \* the web interface: its managers, workers and requests
    build,            \* the build tool's output location and the collectors directory
    conn              \* the SSH connections of one transfer operation

mainVars == <<self_mode, artifacts, build_collectors, pc, idx, overall_success, result, status,
              winrm_session, setup_done, entered, rets, cur, remoteLog,
              remoteBundles, runtime, batch>>

genVars == <<template, spec_file, tree, stream>>

extVars == <<file_name, doc, profile, web, build, conn>>

pureVars == <<zips, pmode, pf, results, system_info, bmode, last, repeated, genVars,
              extVars>>

vars == <<mainVars, pureVars>>

\* ---------------------------------------------------------------- helpers
Last(s) == s[Len(s)]

\* A Python bool as run_batch_mode returns it
BoolStr(b) == IF b THEN "True" ELSE "False"

IsPrefix(s, t) == Len(s) <= Len(t) /\ \A i \in 1..Len(s) : s[i] = t[i]

Positions == 1..Len(artifacts)

\* A hexadecimal digest string: the SHA-256 value it denotes and its letter case.
HexStr(d, up) == [digest |-> d, upper |-> up]

\* str.lower() on a hexadecimal string
Lower(h) == [h EXCEPT !.upper = FALSE]

\* "token in text", the text given as its set of tokens
Contains(text, token) == token \in text

NoBuild == [called |-> FALSE, specExists |-> FALSE, binExists |-> FALSE,
            cfgExists |-> FALSE, invoked |-> FALSE, raised |-> FALSE,
            returncode |-> 0, outExists |-> FALSE, copied |-> FALSE,
            path |-> FALSE]

\* No hash string: None, or an empty output
NoHash == [digest |-> "", upper |-> FALSE]

NoXfer == [called |-> FALSE, transferred |-> FALSE, local_size |-> 0,
           local_hash |-> NoHash, remote_size |-> 0, remote_hash |-> NoHash,
           size_obtained |-> FALSE, hash_obtained |-> FALSE, result |-> FALSE]

NoExec == [called |-> FALSE, raised |-> FALSE, status_code |-> 0,
           stdout |-> {}, pauses |-> 0, checks |-> 0, log_found |-> FALSE]

NoLog == [present |-> FALSE, name |-> "", origin |-> 0, text |-> {},
          readable |-> FALSE]

EmptyCur == [steps |-> <<>>, oks |-> <<>>, bld |-> NoBuild, xfer |-> NoXfer,
             ex |-> NoExec, pulled_log |-> FALSE, checked |-> NoLog,
             error |-> FALSE]

EmptyRuntime == [log |-> NoLog, bundles |-> {}]

NoStep == [op |-> "none", before |-> <<>>, written |-> {}, rewritten |-> {},
           issues |-> {}, ret |-> "none"]

NoCall == [called |-> FALSE, ret |-> FALSE, extracted |-> {}, normalized |-> {},
           validated |-> {}, dirty |-> {}]

NoPull == [clean |-> FALSE, list |-> "unused", files |-> {}, ssh |-> "unused"]

NoBatch == [pull_calls |-> 0, pull_ret |-> FALSE, pull |-> NoPull,
            process_calls |-> 0, process_ret |-> FALSE, normalized |-> {},
            process |-> [ret |-> FALSE, extracted |-> {}, normalized |-> {},
                         validated |-> {}, dirty |-> {}],
            missing |-> {}, errors |-> {}, cleanups |-> 0, unreadable |-> FALSE,
            stop |-> [made |-> FALSE, pc |-> "none", entered |-> 0]]

\* ---------------------------------------------------------------- Init
\* State after CollectorManager.__init__, with the arguments of run().
MainInit ==
    /\ self_mode = "batch"
    /\ artifacts \in UNION {[1..n -> Names] : n \in 1..MaxArtifacts}
    /\ build_collectors \in BOOLEAN
    /\ pc = "idle"
    /\ idx = 0
    /\ overall_success = TRUE
    /\ result = "none"
    /\ status = [processing |-> FALSE, completed |-> FALSE, total_artifacts |-> 0,
                 processed |-> 0, successful |-> <<>>, failed |-> <<>>]
    /\ winrm_session = FALSE
    /\ setup_done = FALSE
    /\ entered = <<>>
    /\ rets = <<>>
    /\ cur = EmptyCur
    /\ remoteLog = [n \in Names |-> 0]
    /\ remoteBundles = {}
    /\ runtime = EmptyRuntime
    /\ batch = NoBatch

\* No spec file generated outside the run: the variables of GenSpec at rest.
NoSpecFile == [called |-> "none", artifacts |-> <<>>, start |-> 0, end |-> 0,
               path |-> FALSE, content |-> <<>>]

\* The stream of a new manager: no message, an empty queue, no call under way.
NoStream == [messages |-> <<>>, progress_queue |-> <<>>,
             calling |-> [c \in {"worker", "web"} |-> <<>>], polled |-> <<>>]

GenIdle ==
    /\ template = [readable |-> FALSE, lines |-> <<>>]
    /\ spec_file = NoSpecFile
    /\ tree = <<>>
    /\ stream = NoStream

\* No file name and no document under study, no profile run, no web request,
\* no build and no transfer: the variables of the specifications that study
\* them, at rest.
NoProfile == [pc |-> "none", use_architectury |-> FALSE, build_collectors |-> FALSE,
              processing |-> FALSE, completed |-> FALSE, success |-> FALSE,
              json_files |-> FALSE, raised |-> FALSE, steps |-> <<>>,
              step_failed |-> FALSE, artifact_results |-> <<>>, messages |-> <<>>,
              polled |-> [processing |-> FALSE, completed |-> FALSE],
              stop |-> "none"]

NoWeb == [collector_manager |-> 0, workers |-> <<>>, response |-> "none"]

NoOutput == [artifact |-> "", call |-> 0]

NoBuildDir == [datastore |-> NoOutput, calls |-> 0,
               collectors |-> [a \in Names |-> NoOutput],
               running |-> [w \in 1..MaxWorkers |->
                              [pc |-> "idle", artifact |-> "", call |-> 0, returncode |-> 0]],
               last |-> [artifact |-> "", call |-> 0, origin |-> NoOutput]]

NoConn == [op |-> "none", pc |-> "idle", ssh |-> "none", sftp |-> "unbound",
           raised |-> FALSE, ret |-> "none", ops |-> 0,
           last |-> [op |-> "none", ssh |-> "none", ret |-> "none"]]

ExtIdle ==
    /\ file_name = <<>>
    /\ doc = <<>>
    /\ profile = NoProfile
    /\ web = NoWeb
    /\ build = NoBuildDir
    /\ conn = NoConn

\* No process_files call and no bundle under study: the variables of
\* FilesSpec and BundleSpec at rest.
PureIdle ==
    /\ zips = <<>>
    /\ pmode = "collection"
    /\ pf = NoCall
    /\ results = <<>>
    /\ system_info = <<>>
    /\ bmode = "collection"
    /\ last = NoStep
    /\ repeated = FALSE
    /\ GenIdle
    /\ ExtIdle

Init == MainInit /\ PureIdle

\* The manager at rest, for the specifications that study one function.
MainIdle ==
    /\ MainInit
    /\ artifacts = <<"A.B">>
    /\ ~build_collectors


\* ---------------------------------------------------------------- pure parts
\* update_artifact_statistics counting only the successes in 'processed'
update_artifact_statistics_SuccessOnly(st, name, pos, success) ==
    LET artifact_info == [name |-> name, pos |-> pos] IN
    IF success
    THEN [st EXCEPT !.successful = Append(@, artifact_info), !.processed = @ + 1]
    ELSE [st EXCEPT !.failed = Append(@, artifact_info)]

\* update_artifact_statistics: one entry appended to 'successful' or to 'failed',
\* and 'processed' incremented.  pos is the list position the entry was made for.
update_artifact_statistics(st, name, pos, success) ==
    LET artifact_info == [name |-> name, pos |-> pos] IN
    IF success
    THEN [st EXCEPT !.successful = Append(@, artifact_info), !.processed = @ + 1]
    ELSE [st EXCEPT !.failed = Append(@, artifact_info), !.processed = @ + 1]

\* build_collector_exe trusting the exit code alone: the output file is copied
\* without the os.path.exists(source_collector) test
build_collector_exe_TrustExitCode(specExists, binExists, cfgExists, raised, returncode, outExists, copyOk) ==
    LET seen == [NoBuild EXCEPT !.called = TRUE, !.specExists = specExists,
                                !.binExists = binExists, !.cfgExists = cfgExists]
    IN
    IF ~specExists \/ ~binExists \/ ~cfgExists THEN seen
    ELSE IF raised THEN [seen EXCEPT !.invoked = TRUE, !.raised = TRUE]
    ELSE IF returncode = 0
         THEN [seen EXCEPT !.invoked = TRUE, !.returncode = returncode,
                           !.outExists = outExists, !.copied = copyOk,
                           !.path = copyOk]
         ELSE [seen EXCEPT !.invoked = TRUE, !.returncode = returncode]

\* build_collector_exe, as a function of what the file system and the build
\* process answer: spec / binary / config existence, whether subprocess.run
\* raised, its return code, whether the tool's output file exists and whether
\* the copy into the collectors directory worked.  path = TRUE: a path is returned.
build_collector_exe(specExists, binExists, cfgExists, raised, returncode, outExists, copyOk) ==
    LET seen == [NoBuild EXCEPT !.called = TRUE, !.specExists = specExists,
                                !.binExists = binExists, !.cfgExists = cfgExists]
    IN
    IF ~specExists THEN seen
    ELSE IF ~binExists THEN seen
    ELSE IF ~cfgExists THEN seen
    ELSE IF raised THEN [seen EXCEPT !.invoked = TRUE, !.raised = TRUE]
    ELSE IF returncode = 0
         THEN IF outExists
              THEN IF copyOk
                   THEN [seen EXCEPT !.invoked = TRUE, !.returncode = returncode,
                                     !.outExists = TRUE, !.copied = TRUE, !.path = TRUE]
                   ELSE [seen EXCEPT !.invoked = TRUE, !.returncode = returncode,
                                     !.outExists = TRUE]
              ELSE [seen EXCEPT !.invoked = TRUE, !.returncode = returncode]
         ELSE [seen EXCEPT !.invoked = TRUE, !.returncode = returncode]

\* get_remote_file_hash: the stripped stdout when the command's status is 0, else None
get_remote_file_hash(hashReply) ==
    IF hashReply.status_code = 0 THEN hashReply.out ELSE NoHash

\* verify_file_integrity comparing the sizes only
verify_file_integrity_SizeOnly(local, sizeReply, hashReply) ==
    IF sizeReply.raised THEN FALSE
    ELSE IF sizeReply.status_code # 0 THEN FALSE
    ELSE IF ~sizeReply.isInt THEN FALSE
    ELSE local.size = sizeReply.val

\* verify_file_integrity, as a function of the local file and of the replies of the
\* two remote commands.  sizeReply.isInt = FALSE: int() raises on the output.
verify_file_integrity(local, sizeReply, hashReply) ==
    IF sizeReply.raised THEN FALSE
    ELSE IF sizeReply.status_code # 0 THEN FALSE
    ELSE IF ~sizeReply.isInt THEN FALSE
    ELSE IF local.size # sizeReply.val THEN FALSE
    ELSE IF hashReply.raised THEN FALSE
    ELSE LET remote_hash == get_remote_file_hash(hashReply) IN
         IF remote_hash = NoHash THEN FALSE
         ELSE IF Lower(local.hash) # Lower(remote_hash) THEN FALSE
         ELSE TRUE

\* check_execution_output accepting any readable log
check_execution_output_AnyText(dir, name) ==
    IF ~dir.log.present \/ dir.log.name # name THEN FALSE
    ELSE dir.log.readable

\* check_execution_output on ./runtime/Collector_<name>.log
check_execution_output(dir, name) ==
    IF ~dir.log.present \/ dir.log.name # name THEN FALSE
    ELSE IF ~dir.log.readable THEN FALSE
    ELSE Contains(dir.log.text, "Exiting")


\* ---------------------------------------------------------------- replies of the remote host
\* (Get-Item ...).Length on the remote file: "ok" prints the file's length,
\* "fail" is a non-zero status, "garbage" an output int() cannot parse, "raise" a
\* transport exception.
SizeReply(remote, mode) ==
    [raised |-> mode = "raise",
     status_code |-> IF mode = "fail" THEN 1 ELSE 0,
     isInt |-> mode = "ok",
     val |-> IF mode = "ok" THEN remote.size ELSE 0]

\* Get-FileHash on the remote file: "ok" prints the file's SHA-256 in hexadecimal
\* (in either letter case), "fail" is a non-zero status, "empty" prints nothing.
HashReply(remote, mode, up) ==
    [raised |-> mode = "raise",
     status_code |-> IF mode = "fail" THEN 1 ELSE 0,
     out |-> IF mode = "ok" THEN HexStr(remote.digest, up) ELSE NoHash]

ReplyModes == {"ok", "fail", "garbage", "raise"}

\* copy_and_verify_file: SSH client, SFTP session, put, then verify_file_integrity.
\* The record keeps the local file's size and hash and, once the put is through,
\* the size and SHA-256 of the file now on the remote host.
copy_and_verify_file(sshOk, sftpOk, putOk, local, remote, sizeReply, hashReply) ==
    LET started == [NoXfer EXCEPT !.called = TRUE, !.local_size = local.size,
                                  !.local_hash = local.hash]
    IN
    IF ~sshOk THEN started
    ELSE IF ~sftpOk THEN started
    ELSE IF ~putOk THEN started
    ELSE [started EXCEPT
            !.transferred = TRUE,
            !.remote_size = remote.size,
            !.remote_hash = HexStr(remote.digest, FALSE),
            !.size_obtained = ~sizeReply.raised /\ sizeReply.status_code = 0
                              /\ sizeReply.isInt,
            !.hash_obtained = ~hashReply.raised
                              /\ get_remote_file_hash(hashReply) # NoHash,
            !.result = verify_file_integrity(local, sizeReply, hashReply)]


\* ---------------------------------------------------------------- spec files
\* SpecFileGenerator.  A line of the template is known by its place in the
\* file and by the marker texts it contains; a generated line is the name line
\* of an enabled block (" <artifact>:") or its "    All: Y" line.
TemplateLine(i, marks) == [kind |-> "template", at |-> i, marks |-> marks, name |-> ""]

\* The two lines written for an artifact
EnabledBlock(artifact) ==
    <<[kind |-> "name", at |-> 0, marks |-> {}, name |-> artifact],
      [kind |-> "all", at |-> 0, marks |-> {}, name |-> ""]>>

\* The marker search going on after the end marker, keeping the last of each
find_section_markers_NoBreak(lines) ==
    LET starts == {i \in 1..Len(lines) : "The list of artifacts and their args." \in lines[i].marks}
        ends == {i \in 1..Len(lines) : "Can be ZIP" \in lines[i].marks} \ starts
        Max(S) == CHOOSE x \in S : \A y \in S : y <= x
    IN [start |-> IF starts = {} THEN 0 ELSE Max(starts),
        end |-> IF ends = {} THEN 0 ELSE Max(ends)]

\* find_section_markers: positions count from 1 here, and 0 stands for the
\* -1 of the code (not found).  A line with the start marker is never taken as
\* the end marker (elif); the search stops at the first end marker.
find_section_markers(lines) ==
    LET RECURSIVE scan(_, _)
        scan(i, start) ==
            IF i > Len(lines) THEN [start |-> start, end |-> 0]
            ELSE IF "The list of artifacts and their args." \in lines[i].marks
                 THEN scan(i + 1, i)
            ELSE IF "Can be ZIP" \in lines[i].marks
                 THEN [start |-> start, end |-> i]
            ELSE scan(i + 1, start)
    IN scan(1, 0)

\* The body shared by create_spec_file and create_combined_spec_file: the
\* template is read, the markers are found, and header, blocks, client-info
\* block and footer are written.  writeOk: opening and writing the spec file
\* raised nothing.
write_spec(call, tpl, list, writeOk) ==
    LET m == find_section_markers(tpl.lines)
        failed == [called |-> call, artifacts |-> list, start |-> 0, end |-> 0,
                   path |-> FALSE, content |-> <<>>]
        header_lines == SubSeq(tpl.lines, 1, IF m.start + 1 <= Len(tpl.lines)
                                             THEN m.start + 1 ELSE Len(tpl.lines))
        footer_lines == SubSeq(tpl.lines, m.end, Len(tpl.lines))
        RECURSIVE blocks(_)
        blocks(as) == IF as = <<>> THEN <<>>
                      ELSE EnabledBlock(Head(as)) \o blocks(Tail(as))
    IN IF ~tpl.readable \/ tpl.lines = <<>> THEN failed
       ELSE IF m.start = 0 \/ m.end = 0
            THEN [failed EXCEPT !.start = m.start, !.end = m.end]
       ELSE IF ~writeOk THEN [failed EXCEPT !.start = m.start, !.end = m.end]
       ELSE [called |-> call, artifacts |-> list, start |-> m.start, end |-> m.end,
             path |-> TRUE,
             content |-> header_lines \o blocks(list)
                         \o EnabledBlock("Generic.Client.Info") \o footer_lines]

create_spec_file(tpl, artifact, writeOk) == write_spec("single", tpl, <<artifact>>, writeOk)

create_combined_spec_file(tpl, list, writeOk) ==
    write_spec("combined", tpl, list, writeOk)

\* ---------------------------------------------------------------- the worker
Step(c, name, ok) == [c EXCEPT !.steps = Append(@, name), !.oks = Append(@, ok)]

\* update_status(message, True) during the artifact: a message of type 'error'
\* is appended to the status stream.
Reported(c) == [c EXCEPT !.error = TRUE]

\* A run-level message of type 'error' given to update_status, with the
\* names it lists.
ErrorMessage(text, names) == [text |-> text, names |-> names]

\* process_single_artifact returns: the statistics are updated with the outcome.
ReturnFromArtifact(success, c) ==
    /\ cur' = c
    /\ status' = update_artifact_statistics(status, artifacts[idx], idx, success)
    /\ rets' = Append(rets, success)
    /\ pc' = "returned"

\* run() in 'batch' mode with a non-empty list, and the head of run_batch_mode.
RunBatchMode ==
    /\ pc = "idle"
    /\ self_mode = "batch"
    /\ artifacts # <<>>
    /\ status' = [status EXCEPT !.processing = TRUE, !.completed = FALSE,
                                !.total_artifacts = Len(artifacts), !.processed = 0]
    /\ pc' = "clean"
    /\ UNCHANGED <<self_mode, artifacts, build_collectors, idx, overall_success, result,
                   winrm_session, setup_done, entered, rets, cur, remoteLog,
                   remoteBundles, runtime, batch>>
    /\ UNCHANGED pureVars

\* clean_all_directories(): failure ends the run with False.
CleanAllDirectories ==
    /\ pc = "clean"
    /\ \E ok \in BOOLEAN :
         IF ok
         THEN /\ runtime' = EmptyRuntime
              /\ pc' = "init"
              /\ UNCHANGED <<result, batch>>
         ELSE /\ result' = "False"
              /\ pc' = "finally"
              /\ batch' = [batch EXCEPT !.errors = @ \cup {ErrorMessage("Failed to clean directories", {})}]
              /\ UNCHANGED runtime
    /\ UNCHANGED <<self_mode, artifacts, build_collectors, idx, overall_success, status,
                   winrm_session, setup_done, entered, rets, cur, remoteLog,
                   remoteBundles>>
    /\ UNCHANGED pureVars

\* initialize_connections creating the WinRM session before it looks at the
\* credentials
InitializeConnections_SessionFirst ==
    /\ pc = "init"
    /\ \E dirsOk \in BOOLEAN, raised \in BOOLEAN,
          missing_vars \in SUBSET {"host", "username", "password"} :
         IF ~dirsOk \/ (build_collectors /\ (raised \/ missing_vars # {}))
         THEN /\ result' = "False"
              /\ pc' = "finally"
              /\ winrm_session' = (dirsOk /\ build_collectors /\ ~raised)
              /\ batch' = [batch EXCEPT !.missing = IF dirsOk /\ build_collectors /\ ~raised
                                                    THEN missing_vars ELSE @,
                                        !.errors = @ \cup {ErrorMessage("Missing required credentials", missing_vars)}]
              /\ UNCHANGED <<setup_done, idx>>
         ELSE /\ winrm_session' = build_collectors
              /\ setup_done' = TRUE
              /\ idx' = 1
              /\ pc' = "loop"
              /\ UNCHANGED <<result, batch>>
    /\ UNCHANGED <<self_mode, artifacts, build_collectors, overall_success, status, entered,
                   rets, cur, remoteLog, remoteBundles, runtime>>
    /\ UNCHANGED pureVars

\* init_directories() and, with build_collectors, initialize_connections():
\* the credentials are read, the required ones that are empty are listed, and
\* only when none is missing the WinRM session object is created.  raised: an
\* exception while the credentials are read or the session is created.
InitializeConnections ==
    /\ pc = "init"
    /\ \E dirsOk \in BOOLEAN, raised \in BOOLEAN,
          missing_vars \in SUBSET {"host", "username", "password"} :
         IF ~dirsOk
         THEN \* init_directories raised: the except clause returns False
              /\ result' = "False"
              /\ pc' = "finally"
              /\ batch' = [batch EXCEPT !.errors = @ \cup {ErrorMessage("Error in batch processing", {})}]
              /\ UNCHANGED <<winrm_session, setup_done, idx>>
         ELSE IF build_collectors /\ raised
         THEN /\ result' = "False"
              /\ pc' = "finally"
              /\ batch' = [batch EXCEPT !.errors = @ \cup {ErrorMessage("Failed to initialize connections", {})}]
              /\ UNCHANGED <<winrm_session, setup_done, idx>>
         ELSE IF build_collectors /\ missing_vars # {}
         THEN /\ result' = "False"
              /\ pc' = "finally"
              /\ batch' = [batch EXCEPT !.missing = missing_vars,
                                        !.errors = @ \cup {ErrorMessage("Missing required credentials", missing_vars)}]
              /\ UNCHANGED <<winrm_session, setup_done, idx>>
         ELSE /\ winrm_session' = build_collectors
              /\ setup_done' = TRUE
              /\ idx' = 1
              /\ pc' = "loop"
              /\ UNCHANGED <<result, batch>>
    /\ UNCHANGED <<self_mode, artifacts, build_collectors, overall_success, status, entered,
                   rets, cur, remoteLog, remoteBundles, runtime>>
    /\ UNCHANGED pureVars

\* for artifact in artifacts: process_single_artifact is entered.
ForNext ==
    /\ pc = "loop"
    /\ idx <= Len(artifacts)
    /\ entered' = Append(entered, idx)
    /\ cur' = EmptyCur
    /\ pc' = "spec"
    /\ UNCHANGED <<self_mode, artifacts, build_collectors, idx, overall_success, result, status,
                   winrm_session, setup_done, rets, remoteLog, remoteBundles,
                   runtime, batch>>
    /\ UNCHANGED pureVars

\* Step 1, create_artifact_spec: create_spec_file on the template as it is
\* when the artifact is processed (it cannot be read, it has no markers, or it
\* is well formed).  Without build_collectors the artifact is done.
CreateArtifactSpec ==
    /\ pc = "spec"
    /\ \E writeOk \in BOOLEAN,
          tpl \in {[readable |-> FALSE, lines |-> <<>>],
                   [readable |-> TRUE, lines |-> <<TemplateLine(1, {})>>],
                   [readable |-> TRUE,
                    lines |-> <<TemplateLine(1, {"The list of artifacts and their args."}),
                                TemplateLine(2, {}),
                                TemplateLine(3, {"Can be ZIP"})>>]} :
         IF ~create_spec_file(tpl, artifacts[idx], writeOk).path
         THEN /\ ReturnFromArtifact(FALSE, Reported(Step(cur, "spec", FALSE)))
              /\ batch' = [batch EXCEPT !.unreadable = @ \/ ~tpl.readable]
         ELSE IF build_collectors
         THEN /\ cur' = Step(cur, "spec", TRUE)
              /\ pc' = "build"
              /\ UNCHANGED <<status, rets, batch>>
         ELSE /\ ReturnFromArtifact(TRUE, Step(cur, "spec", TRUE))
              /\ UNCHANGED batch
    /\ UNCHANGED <<self_mode, artifacts, build_collectors, idx, overall_success, result,
                   winrm_session, setup_done, entered, remoteLog, remoteBundles,
                   runtime>>
    /\ UNCHANGED pureVars

\* Step 2 without the return after a failed build: the push is attempted anyway
BuildCollectorExe_NoReturn ==
    /\ pc = "build"
    /\ \E specExists \in BOOLEAN, binExists \in BOOLEAN, cfgExists \in BOOLEAN,
          raised \in BOOLEAN, returncode \in {0, 1}, outExists \in BOOLEAN,
          copyOk \in BOOLEAN :
         LET b == build_collector_exe(specExists, binExists, cfgExists, raised,
                                      returncode, outExists, copyOk)
         IN
         /\ cur' = Step([cur EXCEPT !.bld = b], "build", b.path)
         /\ pc' = "push"
         /\ UNCHANGED <<status, rets>>
    /\ UNCHANGED <<self_mode, artifacts, build_collectors, idx, overall_success, result,
                   winrm_session, setup_done, entered, remoteLog, remoteBundles,
                   runtime, batch>>
    /\ UNCHANGED pureVars

\* Step 2, build_collector_exe.
BuildCollectorExe ==
    /\ pc = "build"
    /\ \E specExists \in BOOLEAN, binExists \in BOOLEAN, cfgExists \in BOOLEAN,
          raised \in BOOLEAN, returncode \in {0, 1}, outExists \in BOOLEAN,
          copyOk \in BOOLEAN :
         LET b == build_collector_exe(specExists, binExists, cfgExists, raised,
                                      returncode, outExists, copyOk)
         IN
         IF b.path
         THEN /\ cur' = Step([cur EXCEPT !.bld = b], "build", TRUE)
              /\ pc' = "push"
              /\ UNCHANGED <<status, rets>>
         ELSE ReturnFromArtifact(FALSE,
                                 Reported(Step([cur EXCEPT !.bld = b], "build", FALSE)))
    /\ UNCHANGED <<self_mode, artifacts, build_collectors, idx, overall_success, result,
                   winrm_session, setup_done, entered, remoteLog, remoteBundles,
                   runtime, batch>>
    /\ UNCHANGED pureVars


\* What a push leaves in the state: the transfer record, and the next step or
\* the failure of the artifact.
PushOutcome(x) ==
    IF x.result
    THEN /\ cur' = Step([cur EXCEPT !.xfer = x], "push", TRUE)
         /\ pc' = "exec"
         /\ UNCHANGED <<status, rets>>
    ELSE ReturnFromArtifact(FALSE, Reported(Step([cur EXCEPT !.xfer = x], "push", FALSE)))

\* Step 3, first part of push_and_execute_collector: the collector file must
\* exist, then copy_and_verify_file.  Once stop_processing has set the
\* credentials to None, create_ssh_client returns None.
PushCollector ==
    /\ pc = "push"
    /\ \E localExists \in BOOLEAN :
         IF ~localExists
         THEN ReturnFromArtifact(FALSE, Reported(Step(cur, "push", FALSE)))
         ELSE \E size \in Sizes, digest \in Digests,
                 sshOk \in (IF winrm_session THEN BOOLEAN ELSE {FALSE}) :
           LET local == [size |-> size, hash |-> HexStr(digest, FALSE)] IN
           IF ~sshOk
           THEN PushOutcome(copy_and_verify_file(FALSE, TRUE, TRUE, local, local,
                              SizeReply(local, "ok"), HashReply(local, "ok", FALSE)))
           ELSE \E sftpOk \in BOOLEAN, putOk \in BOOLEAN :
             IF ~(sftpOk /\ putOk)
             THEN PushOutcome(copy_and_verify_file(TRUE, sftpOk, putOk, local, local,
                                SizeReply(local, "ok"), HashReply(local, "ok", FALSE)))
             ELSE \E rsize \in Sizes, rdigest \in Digests,
                     smode \in ReplyModes, hmode \in ReplyModes, up \in BOOLEAN :
               LET remote == [size |-> rsize, digest |-> rdigest] IN
               PushOutcome(copy_and_verify_file(TRUE, TRUE, TRUE, local, remote,
                             SizeReply(remote, smode), HashReply(remote, hmode, up)))
    /\ UNCHANGED <<self_mode, artifacts, build_collectors, idx, overall_success, result,
                   winrm_session, setup_done, entered, remoteLog, remoteBundles,
                   runtime, batch>>
    /\ UNCHANGED pureVars

\* Second part: the PowerShell command that runs the collector, redirects its
\* output to the remote log and prints "Success" when the exit code was zero.
\* A run that printed "Success" has written its log and its collection bundle.
\* execute_command raises when the session is None.
ExecuteCollector ==
    /\ pc = "exec"
    /\ \E raised \in (IF winrm_session THEN BOOLEAN ELSE {TRUE}),
          status_code \in {0, 1},
          stdout \in {{}, {"Success"}, {"Failed to execute"}} :
         LET e == [cur.ex EXCEPT !.called = TRUE, !.raised = raised,
                                 !.status_code = status_code, !.stdout = stdout]
             ran == ~raised /\ Contains(stdout, "Success")
         IN
         /\ remoteLog' = IF ran THEN [remoteLog EXCEPT ![artifacts[idx]] = idx]
                         ELSE remoteLog
         /\ remoteBundles' = IF ran THEN remoteBundles \cup {idx} ELSE remoteBundles
         /\ IF ~raised /\ status_code = 0 /\ Contains(stdout, "Success")
            THEN /\ cur' = Step([cur EXCEPT !.ex = e], "exec", TRUE)
                 /\ pc' = "check_log"
                 /\ UNCHANGED <<status, rets>>
            ELSE ReturnFromArtifact(FALSE,
                                    Reported(Step([cur EXCEPT !.ex = e], "exec", FALSE)))
    /\ UNCHANGED <<self_mode, artifacts, build_collectors, idx, overall_success, result,
                   winrm_session, setup_done, entered, runtime, batch>>
    /\ UNCHANGED pureVars

\* The third part going on to the log pull whatever Test-Path answered
CheckLogFile_IgnoreResult ==
    /\ pc = "check_log"
    /\ \E exc \in {"none", "sleep", "test_path"}, removed \in BOOLEAN :
         LET log == IF removed THEN [remoteLog EXCEPT ![artifacts[idx]] = 0]
                    ELSE remoteLog
             found == exc = "none" /\ log[artifacts[idx]] # 0
             e == [cur.ex EXCEPT !.pauses = @ + 1,
                                 !.checks = IF exc = "sleep" THEN @ ELSE @ + 1,
                                 !.log_found = found]
         IN
         /\ remoteLog' = log
         /\ IF exc = "none"
            THEN /\ cur' = Step([cur EXCEPT !.ex = e], "check_log", TRUE)
                 /\ pc' = "pull_log"
                 /\ UNCHANGED <<status, rets>>
            ELSE ReturnFromArtifact(FALSE,
                                    Reported(Step([cur EXCEPT !.ex = e], "check_log", FALSE)))
    /\ UNCHANGED <<self_mode, artifacts, build_collectors, idx, overall_success, result,
                   winrm_session, setup_done, entered, remoteBundles, runtime, batch>>
    /\ UNCHANGED pureVars

\* Third part: one Start-Sleep, then one Test-Path on the remote log.  The log
\* may have been removed from the remote host in the meantime.  run_ps on a
\* session that is None raises at the Start-Sleep.
CheckLogFile ==
    /\ pc = "check_log"
    /\ \E exc \in (IF winrm_session THEN {"none", "sleep", "test_path"} ELSE {"sleep"}),
          removed \in BOOLEAN :
         LET log == IF removed THEN [remoteLog EXCEPT ![artifacts[idx]] = 0]
                    ELSE remoteLog
             found == exc = "none" /\ log[artifacts[idx]] # 0
             e == [cur.ex EXCEPT !.pauses = @ + 1,
                                 !.checks = IF exc = "sleep" THEN @ ELSE @ + 1,
                                 !.log_found = found]
         IN
         /\ remoteLog' = log
         /\ IF found
            THEN /\ cur' = Step([cur EXCEPT !.ex = e], "check_log", TRUE)
                 /\ pc' = "pull_log"
                 /\ UNCHANGED <<status, rets>>
            ELSE ReturnFromArtifact(FALSE,
                                    Reported(Step([cur EXCEPT !.ex = e], "check_log", FALSE)))
    /\ UNCHANGED <<self_mode, artifacts, build_collectors, idx, overall_success, result,
                   winrm_session, setup_done, entered, remoteBundles, runtime, batch>>
    /\ UNCHANGED pureVars

\* Fourth part: clean_runtime_directory, SSH client, SFTP session, sftp.get of
\* the remote log into ./runtime.
PullLogFile ==
    /\ pc = "pull_log"
    /\ \E cleanOk \in BOOLEAN :
         IF ~cleanOk
         THEN /\ ReturnFromArtifact(FALSE, Step(cur, "pull_log", FALSE))
              /\ UNCHANGED runtime
         ELSE IF ~winrm_session
         THEN \* credentials None: create_ssh_client returns None, no message
              /\ ReturnFromArtifact(FALSE, Step(cur, "pull_log", FALSE))
              /\ runtime' = EmptyRuntime
         ELSE \E sshOk \in BOOLEAN, sftpOk \in BOOLEAN, getOk \in BOOLEAN :
           IF ~(sshOk /\ sftpOk /\ getOk /\ remoteLog[artifacts[idx]] # 0)
           THEN /\ ReturnFromArtifact(FALSE, Reported(Step(cur, "pull_log", FALSE)))
                /\ runtime' = EmptyRuntime
           ELSE \E text \in {{}, {"Exiting"}, {"Starting collection"}},
                   readable \in BOOLEAN :
                /\ runtime' = [log |-> [present |-> TRUE, name |-> artifacts[idx],
                                        origin |-> remoteLog[artifacts[idx]],
                                        text |-> text, readable |-> readable],
                               bundles |-> {}]
                /\ cur' = Step([cur EXCEPT !.pulled_log = TRUE], "pull_log", TRUE)
                /\ pc' = "verify"
                /\ UNCHANGED <<status, rets>>
    /\ UNCHANGED <<self_mode, artifacts, build_collectors, idx, overall_success, result,
                   winrm_session, setup_done, entered, remoteLog, remoteBundles,
                   batch>>
    /\ UNCHANGED pureVars

\* The verification followed by a pull of the collection bundles for each
\* artifact, as execute_remote_exe does
VerifyExecutionOutput_PullsBundles ==
    /\ pc = "verify"
    /\ LET ok == check_execution_output(runtime, artifacts[idx])
           c == Step([cur EXCEPT !.checked = runtime.log], "verify", ok)
       IN /\ ReturnFromArtifact(ok, c)
          /\ IF ok
             THEN /\ batch' = [batch EXCEPT !.pull_calls = @ + 1, !.pull_ret = TRUE]
                  /\ runtime' = [runtime EXCEPT !.bundles = remoteBundles]
             ELSE UNCHANGED <<batch, runtime>>
    /\ UNCHANGED <<self_mode, artifacts, build_collectors, idx, overall_success, result,
                   winrm_session, setup_done, entered, remoteLog, remoteBundles>>
    /\ UNCHANGED pureVars

\* Last part: check_execution_output on the pulled log.
VerifyExecutionOutput ==
    /\ pc = "verify"
    /\ LET ok == check_execution_output(runtime, artifacts[idx])
           c == Step([cur EXCEPT !.checked = runtime.log], "verify", ok)
       IN ReturnFromArtifact(ok, c)
    /\ UNCHANGED <<self_mode, artifacts, build_collectors, idx, overall_success, result,
                   winrm_session, setup_done, entered, remoteLog, remoteBundles,
                   runtime, batch>>
    /\ UNCHANGED pureVars


\* The loop leaving at the first failed artifact (a break after the warning)
ForReturn_Break ==
    /\ pc = "returned"
    /\ overall_success' = (overall_success /\ Last(rets))
    /\ idx' = IF Last(rets) THEN idx + 1 ELSE Len(artifacts) + 1
    /\ cur' = EmptyCur
    /\ pc' = "loop"
    /\ UNCHANGED <<self_mode, artifacts, build_collectors, result, status, winrm_session,
                   setup_done, entered, rets, remoteLog, remoteBundles, runtime,
                   batch>>
    /\ UNCHANGED pureVars

\* Back in run_batch_mode's loop: a failed artifact clears overall_success and
\* the loop goes on with the next artifact.
ForReturn ==
    /\ pc = "returned"
    /\ overall_success' = (overall_success /\ Last(rets))
    /\ idx' = idx + 1
    /\ cur' = EmptyCur
    /\ pc' = "loop"
    /\ UNCHANGED <<self_mode, artifacts, build_collectors, result, status, winrm_session,
                   setup_done, entered, rets, remoteLog, remoteBundles, runtime,
                   batch>>
    /\ UNCHANGED pureVars

\* After the loop: the batch-level pull runs when build_collectors and
\* overall_success hold; otherwise overall_success is returned.
AfterLoop ==
    /\ pc = "loop"
    /\ idx > Len(artifacts)
    /\ IF build_collectors /\ overall_success
       THEN /\ pc' = "pull_data"
            /\ UNCHANGED result
       ELSE /\ result' = BoolStr(overall_success)
            /\ pc' = "finally"
    /\ UNCHANGED <<self_mode, artifacts, build_collectors, idx, overall_success, status,
                   winrm_session, setup_done, entered, rets, cur, remoteLog,
                   remoteBundles, runtime, batch>>
    /\ UNCHANGED pureVars

\* pull_files_by_pattern: the remote listing, then one sftp.get per listed
\* file.  listReply is how the listing command ended, files the paths it
\* printed, ssh how create_ssh_client / open_sftp ended, got the files whose
\* sftp.get did not raise (a file that fails is skipped).
pull_files_by_pattern(listReply, files, ssh, got) ==
    IF listReply # "ok" THEN [ret |-> FALSE, pulled |-> {}]
    ELSE IF files = {} THEN [ret |-> FALSE, pulled |-> {}]
    ELSE IF ssh # "ok" THEN [ret |-> FALSE, pulled |-> {}]
    ELSE [ret |-> TRUE, pulled |-> files \cap got]

\* pull_collection_data: clean ./runtime, then pull Collection-*.zip.
pull_collection_data(cleanOk, listReply, files, ssh, got) ==
    IF ~cleanOk THEN [ret |-> FALSE, pulled |-> {}]
    ELSE pull_files_by_pattern(listReply, files, ssh, got)

\* The inputs of one pull: what the environment answered to the cleaning, to
\* the listing ("ok", "fail", "raise") and to create_ssh_client / open_sftp
\* ("ok", "none", "raise").  A step that was not reached is recorded as "unused".
PullChoices ==
    {NoPull}
    \cup {[NoPull EXCEPT !.clean = TRUE, !.list = l] : l \in {"ok", "fail", "raise"}}
    \cup {[clean |-> TRUE, list |-> "ok", files |-> f, ssh |-> h] :
             f \in (SUBSET remoteBundles) \ {{}}, h \in {"ok", "none", "raise"}}

\* run_batch_mode calling pull_collection_data.  The listing prints the
\* bundles that are on the remote host when it runs, which may be fewer than
\* the runs wrote.  With the session None the listing command raises.
PullCollectionData ==
    /\ pc = "pull_data"
    /\ \E inp \in {c \in PullChoices : winrm_session \/ ~c.clean \/ c.list = "raise"} :
       \E got \in (IF inp.ssh = "ok" THEN SUBSET inp.files ELSE {{}}) :
         LET r == pull_collection_data(inp.clean, inp.list, inp.files, inp.ssh, got) IN
         /\ runtime' = IF ~inp.clean THEN runtime
                       ELSE [log |-> NoLog, bundles |-> r.pulled]
         /\ batch' = [batch EXCEPT !.pull_calls = @ + 1, !.pull_ret = r.ret,
                                   !.pull = inp]
         /\ IF r.ret
            THEN /\ pc' = "process_data"
                 /\ UNCHANGED <<overall_success, result>>
            ELSE /\ overall_success' = FALSE
                 /\ result' = "False"
                 /\ pc' = "finally"
    /\ UNCHANGED <<self_mode, artifacts, build_collectors, idx, status, winrm_session,
                   setup_done, entered, rets, cur, remoteLog, remoteBundles>>
    /\ UNCHANGED pureVars

\* What an archive of the input directory is like: whether it can be opened
\* and extracted, whether its basic-information file yields a SystemInfo, and
\* whether the validator finds no issue in its results once normalized.
ArchiveKinds ==
    {[opens |-> FALSE, info |-> FALSE, clean |-> FALSE],
     [opens |-> TRUE, info |-> FALSE, clean |-> FALSE],
     [opens |-> TRUE, info |-> TRUE, clean |-> FALSE],
     [opens |-> TRUE, info |-> TRUE, clean |-> TRUE]}

\* Python's "not x" for what a validator call returned.
Falsy(v) == v \in {"False", "None"}

\* The validator called by process_files: the CollectorManager method in
\* collection mode, which returns "not issues_found", and the function imported
\* from process_zip_files in zip mode, which has no return statement.
validator_return(mode, arch) ==
    IF mode = "collection" THEN BoolStr(arch.clean) ELSE "None"

\* Step 1 of process_files: the index of the first archive that
\* unzip_collection_file cannot extract, 0 when every archive extracts.
FirstFailedUnzip(z) ==
    IF \A i \in 1..Len(z) : z[i].opens THEN 0
    ELSE CHOOSE i \in 1..Len(z) : ~z[i].opens /\ \A j \in 1..(i - 1) : z[j].opens

NoProcess == [ret |-> FALSE, extracted |-> {}, normalized |-> {}, validated |-> {},
              dirty |-> {}]

\* process_files over the archives z (in glob order): extracted, normalized
\* and validated are the indices of the archives each step was done for,
\* dirty those for which the validator call came back falsy.
process_files(z, mode) ==
    LET all == 1..Len(z)
        stop == FirstFailedUnzip(z)
        norm == {i \in all : z[i].info}
        val == IF mode = "collection" THEN norm ELSE all
        bad == {i \in val : Falsy(validator_return(mode, z[i]))}
    IN
    IF z = <<>> THEN NoProcess
    ELSE IF stop # 0 THEN [NoProcess EXCEPT !.extracted = 1..(stop - 1)]
    ELSE [ret |-> IF mode = "collection" THEN norm = all /\ bad = {} ELSE bad = {},
          extracted |-> all, normalized |-> norm, validated |-> val, dirty |-> bad]

\* The positions of a set in ascending order.
RECURSIVE Ascending(_)
Ascending(S) ==
    IF S = {} THEN <<>>
    ELSE LET m == CHOOSE x \in S : \A y \in S : x <= y
         IN <<m>> \o Ascending(S \ {m})

\* process_collection_data() = process_files(mode='collection') on the pulled
\* bundles; the sets of the result are given as artifact positions.
ProcessOutcome(out) ==
    LET order == Ascending(runtime.bundles)
        r == process_files([k \in 1..Len(order) |-> out[order[k]]], "collection")
        Pos(I) == {order[k] : k \in I}
    IN [ret |-> r.ret, extracted |-> Pos(r.extracted), normalized |-> Pos(r.normalized),
        validated |-> Pos(r.validated), dirty |-> Pos(r.dirty)]

\* run_batch_mode not looking at what process_collection_data returns
ProcessCollectionData_IgnoreResult ==
    /\ pc = "process_data"
    /\ \E out \in [runtime.bundles -> ArchiveKinds] :
         LET r == ProcessOutcome(out) IN
         /\ batch' = [batch EXCEPT !.process_calls = @ + 1, !.process_ret = r.ret,
                                   !.normalized = r.normalized, !.process = r]
         /\ result' = BoolStr(overall_success)
         /\ pc' = "finally"
    /\ UNCHANGED <<self_mode, artifacts, build_collectors, idx, overall_success, status,
                   winrm_session, setup_done, entered, rets, cur, remoteLog,
                   remoteBundles, runtime>>
    /\ UNCHANGED pureVars

\* run_batch_mode calling process_collection_data: its result becomes
\* overall_success and the return value.
ProcessCollectionData ==
    /\ pc = "process_data"
    /\ \E out \in [runtime.bundles -> ArchiveKinds] :
         LET r == ProcessOutcome(out) IN
         /\ batch' = [batch EXCEPT !.process_calls = @ + 1, !.process_ret = r.ret,
                                   !.normalized = r.normalized, !.process = r]
         /\ overall_success' = r.ret
         /\ result' = BoolStr(r.ret)
         /\ pc' = "finally"
    /\ UNCHANGED <<self_mode, artifacts, build_collectors, idx, status, winrm_session,
                   setup_done, entered, rets, cur, remoteLog, remoteBundles,
                   runtime>>
    /\ UNCHANGED pureVars

\* The finally clause of run_batch_mode: the status flags, and
\* cleanup_remote_files when a WinRM session exists (Collector_*.exe,
\* Collector_*.log and Collection-*.zip are removed, best effort).
Finally ==
    /\ pc = "finally"
    /\ status' = [status EXCEPT !.processing = FALSE, !.completed = TRUE]
    /\ \E removed \in BOOLEAN :
         IF winrm_session /\ removed
         THEN /\ remoteLog' = [n \in Names |-> 0]
              /\ remoteBundles' = {}
         ELSE UNCHANGED <<remoteLog, remoteBundles>>
    /\ batch' = [batch EXCEPT !.cleanups = IF winrm_session THEN @ + 1 ELSE @]
    /\ pc' = "done"
    /\ UNCHANGED <<self_mode, artifacts, build_collectors, idx, overall_success, result,
                   winrm_session, setup_done, entered, rets, cur, runtime>>
    /\ UNCHANGED pureVars

Next ==
    \/ RunBatchMode
    \/ CleanAllDirectories
    \/ InitializeConnections
    \/ ForNext
    \/ CreateArtifactSpec
    \/ BuildCollectorExe
    \/ PushCollector
    \/ ExecuteCollector
    \/ CheckLogFile
    \/ PullLogFile
    \/ VerifyExecutionOutput
    \/ ForReturn
    \/ AfterLoop
    \/ PullCollectionData
    \/ ProcessCollectionData
    \/ Finally

Spec == Init /\ [][Next]_vars

\* ---------------------------------------------------------------- run() and stop
\* The values of self.mode: the four that run() knows, and any other.
Modes == {"batch", "individual", "windows_test", "process_zip", "other"}

\* run() without the except clause around the dispatch
run_NoExcept(m, hasArtifacts, inner) ==
    IF m = "batch" THEN (IF hasArtifacts THEN inner ELSE "False")
    ELSE IF m = "individual" THEN (IF hasArtifacts THEN "raised" ELSE "False")
    ELSE IF m \in {"windows_test", "process_zip"} THEN inner
    ELSE "False"

\* run(): the dispatch on self.mode inside try / except Exception.  inner is
\* how the method of the mode ended: "True", "False", or "raised".  The
\* 'individual' branch calls run_individual_mode, which the class does not
\* define: an AttributeError.
run(m, hasArtifacts, inner) ==
    LET body == IF m = "batch" THEN (IF hasArtifacts THEN inner ELSE "False")
                ELSE IF m = "individual"
                THEN (IF hasArtifacts THEN "raised" ELSE "False")
                ELSE IF m \in {"windows_test", "process_zip"} THEN inner
                ELSE "False"
    IN IF body = "raised" THEN "False" ELSE body

\* A new manager of any mode, run() given any list, the empty one included.
RunInit ==
    /\ self_mode \in Modes
    /\ artifacts \in UNION {[1..n -> Names] : n \in 0..MaxArtifacts}
    /\ self_mode # "batch" => Len(artifacts) <= 1
    /\ build_collectors \in BOOLEAN
    /\ pc = "idle"
    /\ idx = 0
    /\ overall_success = TRUE
    /\ result = "none"
    /\ status = [processing |-> FALSE, completed |-> FALSE, total_artifacts |-> 0,
                 processed |-> 0, successful |-> <<>>, failed |-> <<>>]
    /\ winrm_session = FALSE
    /\ setup_done = FALSE
    /\ entered = <<>>
    /\ rets = <<>>
    /\ cur = EmptyCur
    /\ remoteLog = [n \in Names |-> 0]
    /\ remoteBundles = {}
    /\ runtime = EmptyRuntime
    /\ batch = NoBatch
    /\ PureIdle

\* run() in a mode other than 'batch', or in 'batch' mode with an empty list.
\* run_windows_test reads the credentials outside its try block (raised), and
\* returns what its remote steps give; process_zip_files is
\* process_files(mode='zip') on the archives of ./runtime.
Run ==
    /\ pc = "idle"
    /\ self_mode # "batch" \/ artifacts = <<>>
    /\ \E inner \in IF self_mode = "windows_test" THEN {"True", "False", "raised"}
                    ELSE IF self_mode = "process_zip"
                    THEN {BoolStr(process_files(z, "zip").ret) :
                             z \in UNION {[1..n -> ArchiveKinds] : n \in 0..1}}
                    ELSE {"False"} :
         result' = run(self_mode, artifacts # <<>>, inner)
    /\ pc' = "done"
    /\ UNCHANGED <<self_mode, artifacts, build_collectors, idx, overall_success, status,
                   winrm_session, setup_done, entered, rets, cur, remoteLog,
                   remoteBundles, runtime, batch>>
    /\ UNCHANGED pureVars

\* stop_processing(), called from the web thread while status['processing']
\* holds: the flags, cleanup_remote_files when a session exists, then the
\* session and the credentials are set to None.  The request is recorded with
\* the position of the worker and the number of artifacts entered so far.
StopProcessing ==
    /\ status.processing
    /\ status' = [status EXCEPT !.processing = FALSE, !.completed = TRUE]
    /\ \E removed \in BOOLEAN :
         IF winrm_session /\ removed
         THEN /\ remoteLog' = [n \in Names |-> 0]
              /\ remoteBundles' = {}
         ELSE UNCHANGED <<remoteLog, remoteBundles>>
    /\ winrm_session' = FALSE
    /\ batch' = [batch EXCEPT !.cleanups = IF winrm_session THEN @ + 1 ELSE @,
                              !.stop = [made |-> TRUE, pc |-> pc,
                                        entered |-> Len(entered)]]
    /\ UNCHANGED <<self_mode, artifacts, build_collectors, pc, idx, overall_success,
                   result, setup_done, entered, rets, cur, runtime>>
    /\ UNCHANGED pureVars

\* run() on a manager that is not stopped.
RunNext ==
    \/ Run
    \/ Next

RunSpec == RunInit /\ [][RunNext]_vars

\* A batch run during which the web thread may call stop_processing.
StopNext ==
    \/ StopProcessing
    \/ Next

StopSpec == Init /\ [][StopNext]_vars

\* The worker thread that /start runs run() on is scheduled until run()
\* returns; every external call returns.
RunLive == RunSpec /\ WF_vars(RunNext)


\* ---------------------------------------------------------------- process_files
\* One call of process_files (process_collection_data or process_zip_files)
\* on an input directory holding up to MaxZips archives.
FilesInit ==
    /\ MainIdle
    /\ zips \in UNION {[1..n -> ArchiveKinds] : n \in 0..MaxZips}
    /\ pmode \in {"collection", "zip"}
    /\ pf = NoCall
    /\ results = <<>>
    /\ system_info = <<>>
    /\ bmode = "collection"
    /\ last = NoStep
    /\ repeated = FALSE
    /\ GenIdle
    /\ ExtIdle

ProcessFiles ==
    /\ ~pf.called
    /\ LET r == process_files(zips, pmode) IN
       pf' = [called |-> TRUE, ret |-> r.ret, extracted |-> r.extracted,
              normalized |-> r.normalized, validated |-> r.validated,
              dirty |-> r.dirty]
    /\ UNCHANGED <<zips, pmode>>
    /\ UNCHANGED <<mainVars, results, system_info, bmode, last, repeated, genVars, extVars>>

FilesSpec == FilesInit /\ [][ProcessFiles]_vars

\* ---------------------------------------------------------------- strings
\* A string is a sequence of tokens: words, "." , "%2F", "_".  The string
\* operations of the code are computed on these sequences.

\* str.replace(pat, rep): every non-overlapping occurrence, left to right.
RECURSIVE Replace(_, _, _)
Replace(s, pat, rep) ==
    IF Len(s) < Len(pat) \/ pat = <<>> THEN s
    ELSE IF SubSeq(s, 1, Len(pat)) = pat
         THEN rep \o Replace(SubSeq(s, Len(pat) + 1, Len(s)), pat, rep)
         ELSE <<s[1]>> \o Replace(Tail(s), pat, rep)

\* str.split(sep) for a one-token separator: always at least one part.
RECURSIVE Split(_, _)
Split(s, sep) ==
    IF \A i \in 1..Len(s) : s[i] # sep THEN <<s>>
    ELSE LET i == CHOOSE k \in 1..Len(s) : s[k] = sep /\ \A j \in 1..(k - 1) : s[j] # sep
         IN <<SubSeq(s, 1, i - 1)>> \o Split(SubSeq(s, i + 1, Len(s)), sep)

\* "sub in s"
Occurs(sub, s) == \E i \in 1..(Len(s) - Len(sub) + 1) : SubSeq(s, i, i + Len(sub) - 1) = sub

Escaped == <<"%2F">>

DotJson == <<".", "json">>

\* CollectorManager.get_source_type: '%2F' replaced by '.', every '.json'
\* removed, split on '.', last part.
get_source_type(filename) ==
    LET parts == Split(Replace(Replace(filename, Escaped, <<".">>), DotJson, <<>>), ".")
    IN IF parts # <<>> THEN Last(parts) ELSE <<"Unknown">>

\* process_zip_files.get_source_type: the same without the '%2F' replacement.
pzf_get_source_type(filename) ==
    LET parts == Split(Replace(filename, DotJson, <<>>), ".")
    IN IF parts # <<>> THEN Last(parts) ELSE <<"Unknown">>

\* The get_source_type the enricher and the validator of a mode call.
source_type_of(mode, filename) ==
    IF mode = "collection" THEN get_source_type(filename)
    ELSE pzf_get_source_type(filename)

\* The new name rename_files_in_directory computes for a file.
new_name(name) == Replace(name, Escaped, <<".">>)

\* ---------------------------------------------------------------- JSON lines
\* A JSON value: a string, the integer int(dt.timestamp()) of an ISO string,
\* or null.
Str(s) == [t |-> "str", s |-> s]

EpochOf(s) == [t |-> "int", s |-> s]

Null == [t |-> "null", s |-> <<>>]

\* A dict is a sequence of key/value pairs with distinct keys, in insertion
\* order (the order json.dumps writes them in).
Keys(o) == {o[i].k : i \in 1..Len(o)}

Has(o, key) == \E i \in 1..Len(o) : o[i].k = key

\* dict.get(key): None for a key that is absent.
Get(o, key) ==
    IF Has(o, key) THEN o[CHOOSE i \in 1..Len(o) : o[i].k = key].v ELSE Null

\* d[key] = value adding a pair even when the key is there
Set_AlwaysAppend(o, key, value) == Append(o, [k |-> key, v |-> value])

\* d[key] = value: an existing key keeps its place, a new one is appended.
Set(o, key, value) ==
    IF Has(o, key)
    THEN [i \in 1..Len(o) |-> IF o[i].k = key THEN [k |-> key, v |-> value] ELSE o[i]]
    ELSE Append(o, [k |-> key, v |-> value])

\* d.update(other)
RECURSIVE Update(_, _)
Update(o, other) ==
    IF other = <<>> THEN o
    ELSE Update(Set(o, other[1].k, other[1].v), Tail(other))

\* A line of a results file.  kind is what json.loads makes of the stripped
\* line: "object" (a dict), "number" (valid JSON that is no object), "text"
\* (JSONDecodeError) or "blank" (nothing but whitespace).  dumped says that the
\* text is what json.dumps writes for the value, padded that the line has
\* whitespace around it.
ObjectLine(dumped, o) == [kind |-> "object", obj |-> o, dumped |-> dumped, padded |-> FALSE]

TextLine(padded) == [kind |-> "text", obj |-> <<>>, dumped |-> FALSE, padded |-> padded]

NumberLine == [kind |-> "number", obj |-> <<>>, dumped |-> TRUE, padded |-> FALSE]

BlankLine == [kind |-> "blank", obj |-> <<>>, dumped |-> FALSE, padded |-> TRUE]

\* lines = [line.strip() for line in f if line.strip()]
RECURSIVE Stripped(_)
Stripped(lines) ==
    IF lines = <<>> THEN <<>>
    ELSE IF lines[1].kind = "blank" THEN Stripped(Tail(lines))
    ELSE <<[lines[1] EXCEPT !.padded = FALSE]>> \o Stripped(Tail(lines))

\* A file: readable is FALSE for a file whose reading raises; newline says
\* that the text ends with a line break.
File(readable, lines, newline) == [readable |-> readable, lines |-> lines, newline |-> newline]

\* f.write('\n'.join(updated_lines) + '\n')
Written(updated_lines) == File(TRUE, updated_lines, TRUE)

BasicInfoName == <<"Generic", ".", "Client", ".", "Info", ".", "BasicInformation", ".", "json">>

\* results_dir.glob('*.json') without the basic-information file
ResultFiles(dir) == {n \in DOMAIN dir : n # BasicInfoName /\ Len(n) >= 2
                                        /\ SubSeq(n, Len(n) - 1, Len(n)) = DotJson}

\* ---------------------------------------------------------------- enrichment
SourceTypeKey == <<"source_type">>

\* Item assignment and .update() raise TypeError / AttributeError on a value
\* that is no dict; only json.JSONDecodeError is caught per line, so the
\* exception ends the work on the file before anything is written.
RaisesOnLine(lines) == \E i \in 1..Len(lines) : lines[i].kind = "number"

\* The body of the per-file try block of update_json_with_system_info.
update_file(name, f, info) ==
    IF ~f.readable THEN f
    ELSE LET lines == Stripped(f.lines) IN
         IF RaisesOnLine(lines) THEN f
         ELSE Written([i \in 1..Len(lines) |->
                 IF lines[i].kind = "object"
                 THEN ObjectLine(TRUE, Update(Set(lines[i].obj, SourceTypeKey,
                                       Str(get_source_type(name))), info))
                 ELSE lines[i]])

\* process_zip_files.update_json_with_source_type
update_json_with_source_type(name, f) ==
    IF ~f.readable THEN f
    ELSE LET lines == Stripped(f.lines) IN
         IF RaisesOnLine(lines) THEN f
         ELSE Written([i \in 1..Len(lines) |->
                 IF lines[i].kind = "object"
                 THEN ObjectLine(TRUE, Set(lines[i].obj, SourceTypeKey,
                                Str(pzf_get_source_type(name))))
                 ELSE lines[i]])

\* The per-file body of process_zip_files.update_json_with_system_info: the
\* source type first, then a second pass for the system information.
pzf_update_file(name, f, info) ==
    LET g == update_json_with_source_type(name, f) IN
    IF ~g.readable THEN g
    ELSE LET lines == Stripped(g.lines) IN
         IF RaisesOnLine(lines) THEN g
         ELSE Written([i \in 1..Len(lines) |->
                 IF lines[i].kind = "object"
                 THEN ObjectLine(TRUE, Update(lines[i].obj, info))
                 ELSE lines[i]])

\* update_json_with_system_info of the mode, over the results directory.
update_json_with_system_info(mode, dir, info) ==
    [n \in DOMAIN dir |->
        IF n \notin ResultFiles(dir) THEN dir[n]
        ELSE IF mode = "collection" THEN update_file(n, dir[n], info)
        ELSE pzf_update_file(n, dir[n], info)]

\* The files a step opens for writing: those it reads to the end.
WritableFiles(dir) ==
    {n \in ResultFiles(dir) : dir[n].readable /\ ~RaisesOnLine(Stripped(dir[n].lines))}

\* ---------------------------------------------------------------- timestamps
timestamp_keys == <<<<"visit", "_", "time">>, <<"Key", "Last", "Write", "Timestamp">>,
                    <<"Last", "Updated">>, <<"Key", "MTime">>>>

possible_time_keys == {"time", "date", "timestamp", "modified", "created", "accessed",
                       "updated", "last", "mtime", "ctime", "atime"}

\* str.lower() of a word
LowerWord(w) ==
    CASE w = "Key" -> "key"
      [] w = "Last" -> "last"
      [] w = "Write" -> "write"
      [] w = "Timestamp" -> "timestamp"
      [] w = "Updated" -> "updated"
      [] w = "MTime" -> "mtime"
      [] w = "Modified" -> "modified"
      [] w = "Name" -> "name"
      [] OTHER -> w

\* any(time_indicator.lower() in key.lower() ...), for keys made of whole words
HasTimeIndicator(key) == \E i \in 1..Len(key) : LowerWord(key[i]) \in possible_time_keys

\* f"{key}_epoch"
EpochKey(key) == key \o <<"_", "epoch">>

\* Strings in the format %Y-%m-%dT%H:%M:%SZ
IsoStrings == {<<"2025-06-04T20:08:02Z">>}

\* convert_iso_to_epoch: None for a string strptime rejects
convert_iso_to_epoch(timestamp_str) ==
    IF timestamp_str \in IsoStrings THEN EpochOf(timestamp_str) ELSE Null

\* The loop over timestamp_keys of add_epoch_timestamps, for one dict.
RECURSIVE AddKnownEpochs(_, _)
AddKnownEpochs(o, keys) ==
    IF keys = <<>> THEN o
    ELSE LET key == keys[1]
             v == Get(o, key)
             epoch_time == convert_iso_to_epoch(v.s)
         IN AddKnownEpochs(IF Has(o, key) /\ v.t = "str" /\ epoch_time # Null
                           THEN Set(o, EpochKey(key), epoch_time) ELSE o,
                           Tail(keys))

\* add_epoch_timestamps: the file is written whether or not a key was converted.
add_epoch_timestamps(f) ==
    IF ~f.readable THEN f
    ELSE LET lines == Stripped(f.lines) IN
         IF RaisesOnLine(lines) THEN f
         ELSE Written([i \in 1..Len(lines) |->
                 IF lines[i].kind = "object"
                 THEN ObjectLine(TRUE, AddKnownEpochs(lines[i].obj, timestamp_keys))
                 ELSE lines[i]])

\* detect_and_convert_timestamps not looking for the "<key>_epoch" sibling
RECURSIVE DetectEpochs_IgnoreSibling(_, _)
DetectEpochs_IgnoreSibling(o, keys) ==
    IF keys = <<>> THEN o
    ELSE LET key == keys[1]
             v == Get(o, key)
             epoch_time == convert_iso_to_epoch(v.s)
         IN DetectEpochs_IgnoreSibling(
               IF HasTimeIndicator(key) /\ v.t = "str" /\ epoch_time # Null
               THEN Append(o, [k |-> EpochKey(key), v |-> epoch_time]) ELSE o,
               Tail(keys))

\* The loop over list(json_obj.keys()) of detect_and_convert_timestamps.
RECURSIVE DetectEpochs(_, _)
DetectEpochs(o, keys) ==
    IF keys = <<>> THEN o
    ELSE LET key == keys[1]
             v == Get(o, key)
             epoch_time == convert_iso_to_epoch(v.s)
         IN DetectEpochs(IF HasTimeIndicator(key) /\ ~Has(o, EpochKey(key))
                            /\ v.t = "str" /\ epoch_time # Null
                         THEN Set(o, EpochKey(key), epoch_time) ELSE o,
                         Tail(keys))

\* conversions_made of detect_and_convert_timestamps
ConversionsMade(lines) ==
    \E i \in 1..Len(lines) :
        lines[i].kind = "object" /\ DetectEpochs(lines[i].obj, [j \in 1..Len(lines[i].obj) |-> lines[i].obj[j].k]) # lines[i].obj

\* detect_and_convert_timestamps: written only when a key was converted.
detect_and_convert_timestamps(f) ==
    IF ~f.readable THEN f
    ELSE LET lines == Stripped(f.lines) IN
         IF RaisesOnLine(lines) \/ ~ConversionsMade(lines) THEN f
         ELSE Written([i \in 1..Len(lines) |->
                 IF lines[i].kind = "object"
                 THEN ObjectLine(TRUE, DetectEpochs(lines[i].obj, [j \in 1..Len(lines[i].obj) |-> lines[i].obj[j].k]))
                 ELSE lines[i]])

\* add_timestamps_to_json_files: both passes over every results file.
add_timestamps_to_json_files(dir) ==
    [n \in DOMAIN dir |->
        IF n \notin ResultFiles(dir) THEN dir[n]
        ELSE detect_and_convert_timestamps(add_epoch_timestamps(dir[n]))]

\* The files the second pass writes.
DetectWrites(dir) ==
    {n \in ResultFiles(dir) :
        LET f == add_epoch_timestamps(dir[n]) IN
        f.readable /\ ~RaisesOnLine(Stripped(f.lines)) /\ ConversionsMade(Stripped(f.lines))}

\* ---------------------------------------------------------------- validation
required_keys == {SourceTypeKey, <<"Hostname">>, <<"OS">>, <<"Platform">>,
                  <<"PlatformVersion">>, <<"Fqdn">>, <<"MACAddresses">>}

Issue(file, line, kind, keys) == [file |-> file, line |-> line, kind |-> kind, keys |-> keys]

\* The checks of one parsed line (line_number counts the stripped lines from 1).
record_issues(mode, name, line_number, o) ==
    LET expected == Str(source_type_of(mode, name))
        missing_keys == required_keys \ Keys(o)
        empty_keys == {key \in required_keys \ missing_keys :
                          Get(o, key) = Null \/ Get(o, key) = Str(<<>>)}
    IN (IF Get(o, SourceTypeKey) # expected
        THEN {Issue(name, line_number, "source-type-mismatch", {})} ELSE {})
       \cup (IF missing_keys # {}
             THEN {Issue(name, line_number, "missing-keys", missing_keys)} ELSE {})
       \cup (IF empty_keys # {}
             THEN {Issue(name, line_number, "empty-required-value", empty_keys)} ELSE {})

\* The lines the validator gets to: .get() on a value that is no dict raises
\* AttributeError, which the per-file handler catches, so the lines after it
\* are not looked at.
LinesChecked(lines) ==
    {i \in 1..Len(lines) : \A j \in 1..i : lines[j].kind # "number"}

\* The per-file try block of check_process_single_zip.
file_issues(mode, name, f) ==
    IF ~f.readable THEN {Issue(name, 0, "file-error", {})}
    ELSE LET lines == Stripped(f.lines) IN
         UNION {IF lines[i].kind = "object"
                THEN record_issues(mode, name, i, lines[i].obj)
                ELSE {Issue(name, i, "invalid-json", {})} : i \in LinesChecked(lines)}
         \cup (IF RaisesOnLine(lines) THEN {Issue(name, 0, "file-error", {})} ELSE {})

\* check_process_single_zip: the issues it reports and what it returns (the
\* method returns "not issues_found", the process_zip_files function nothing).
check_process_single_zip(mode, dir) ==
    LET issues == UNION {file_issues(mode, n, dir[n]) : n \in ResultFiles(dir)}
    IN [issues |-> issues,
        ret |-> IF mode = "collection" THEN BoolStr(issues = {}) ELSE "None"]

\* ---------------------------------------------------------------- renaming
\* The files with '%2F' in their name.
EscapedFiles(dir) == {n \in DOMAIN dir : Occurs(Escaped, n)}

\* One old_path.rename(new_path).  failed holds the files whose rename raises.
\* The method skips a file whose new name exists; the process_zip_files
\* function renames without looking, which replaces an existing file.
rename_file(mode, dir, n, failed) ==
    LET t == new_name(n)
        moved == [x \in (DOMAIN dir \ {n}) \cup {t} |-> IF x = t THEN dir[n] ELSE dir[x]]
    IN IF n \in failed THEN dir
       ELSE IF t \in DOMAIN dir /\ mode = "collection" THEN dir
       ELSE moved

RECURSIVE RenameFiles(_, _, _, _)
RenameFiles(mode, dir, todo, failed) ==
    IF todo = {} THEN dir
    ELSE LET n == CHOOSE x \in todo : TRUE
         IN RenameFiles(mode, rename_file(mode, dir, n, failed), todo \ {n}, failed)

\* rename_files_in_directory, for the files of the results directory
rename_files_in_directory(mode, dir, failed) ==
    RenameFiles(mode, dir, EscapedFiles(dir), failed)

\* ---------------------------------------------------------------- one bundle
\* The normalisation steps of process_extracted_files / process_single_zip
\* applied to the results directory of one extracted bundle.  The renaming is
\* the first step on an extracted bundle; the steps may then be run again in
\* any order, as they are when the directory is processed once more.
Pair(key, value) == [k |-> key, v |-> value]

FullInfo == <<Pair(<<"Hostname">>, Str(<<"host">>)), Pair(<<"OS">>, Str(<<"windows">>)),
              Pair(<<"Platform">>, Str(<<"Microsoft">>)), Pair(<<"PlatformVersion">>, Str(<<"10">>)),
              Pair(<<"Fqdn">>, Str(<<"host.lan">>)), Pair(<<"MACAddresses">>, Str(<<"00:11">>))>>

\* The SystemInfo of a basic-information document without Fqdn
NoFqdnInfo == SubSeq(FullInfo, 1, 4) \o SubSeq(FullInfo, 6, 6)

Iso == Str(<<"2025-06-04T20:08:02Z">>)

SampleLines ==
    {TextLine(TRUE), NumberLine, BlankLine,
     ObjectLine(FALSE, <<Pair(<<"Name">>, Str(<<"x">>))>>),
     ObjectLine(TRUE, <<Pair(<<"Hostname">>, Str(<<"old">>)),
                        Pair(SourceTypeKey, Str(<<"Other">>)),
                        Pair(<<"Fqdn">>, Str(<<>>))>>),
     ObjectLine(TRUE, <<Pair(<<"visit", "_", "time">>, Iso), Pair(<<"Modified">>, Iso)>>)}

RawName == <<"Windows", "%2F", "System", "%2F", "PowerShell", ".", "json">>

DottedName == <<"Windows", ".", "System", ".", "PowerShell", ".", "json">>

\* The other results file of the bundle: none, one that cannot be read, or
\* one with a single record.
OtherFiles ==
    {<<>>}
    \cup {[n \in {<<"Users", ".", "json">>} |-> f] :
            f \in {File(FALSE, <<>>, FALSE),
                   File(TRUE, <<ObjectLine(FALSE, <<Pair(<<"Name">>, Str(<<"y">>))>>)>>, FALSE)}}

\* The results directory of a bundle whose file n has the given lines.
Bundle(n, lines, other) ==
    [x \in {n, BasicInfoName} \cup DOMAIN other |->
        IF x = n THEN File(TRUE, lines, FALSE)
        ELSE IF x = BasicInfoName THEN File(TRUE, <<ObjectLine(FALSE, FullInfo)>>, TRUE)
        ELSE other[x]]

BundleInit ==
    /\ MainIdle
    /\ zips = <<>>
    /\ pmode = "collection"
    /\ pf = NoCall
    /\ \E n \in {RawName, DottedName}, other \in OtherFiles,
          lines \in UNION {[1..k -> SampleLines] : k \in 0..MaxLines} :
         results = Bundle(n, lines, other)
    /\ system_info \in {FullInfo, NoFqdnInfo}
    /\ bmode \in {"collection", "zip"}
    /\ last = NoStep
    /\ repeated = FALSE
    /\ GenIdle
    /\ ExtIdle

RenameFilesInDirectory ==
    /\ \E failed \in SUBSET EscapedFiles(results) :
         results' = rename_files_in_directory(bmode, results, failed)
    /\ last' = [NoStep EXCEPT !.op = "rename", !.before = results]
    /\ repeated' = (last.op = "rename")
    /\ UNCHANGED <<system_info, bmode>>
    /\ UNCHANGED <<mainVars, zips, pmode, pf, genVars, extVars>>

UpdateJsonWithSystemInfo ==
    /\ last.op # "none"
    /\ results' = update_json_with_system_info(bmode, results, system_info)
    /\ last' = [NoStep EXCEPT !.op = "enrich", !.before = results,
                               !.written = WritableFiles(results)]
    /\ repeated' = (last.op = "enrich")
    /\ UNCHANGED <<system_info, bmode>>
    /\ UNCHANGED <<mainVars, zips, pmode, pf, genVars, extVars>>

AddTimestampsToJsonFiles ==
    /\ last.op # "none"
    /\ results' = add_timestamps_to_json_files(results)
    /\ last' = [NoStep EXCEPT !.op = "timestamps", !.before = results,
                   !.written = WritableFiles(results),
                   !.rewritten = DetectWrites(results)]
    /\ repeated' = (last.op = "timestamps")
    /\ UNCHANGED <<system_info, bmode>>
    /\ UNCHANGED <<mainVars, zips, pmode, pf, genVars, extVars>>

CheckProcessSingleZip ==
    /\ last.op # "none"
    /\ LET r == check_process_single_zip(bmode, results) IN
       last' = [NoStep EXCEPT !.op = "validate", !.before = results,
                        !.issues = r.issues, !.ret = r.ret]
    /\ repeated' = (last.op = "validate")
    /\ UNCHANGED <<results, system_info, bmode>>
    /\ UNCHANGED <<mainVars, zips, pmode, pf, genVars, extVars>>

BundleNext ==
    \/ RenameFilesInDirectory
    \/ UpdateJsonWithSystemInfo
    \/ AddTimestampsToJsonFiles
    \/ CheckProcessSingleZip

BundleSpec == BundleInit /\ [][BundleNext]_vars

\* ---------------------------------------------------------------- extraction
\* The extraction directory of one archive, runtime_zip/<stem>: empty before
\* the first extraction.  process_files extracts the archive into it
\* (unzip_collection_file), process_single_zip extracts it there once more, and
\* a later call on an archive of the same name extracts into the directory the
\* earlier call left.
ExtractInit ==
    /\ MainIdle
    /\ zips = <<>>
    /\ pmode = "collection"
    /\ pf = NoCall
    /\ results = <<>>
    /\ system_info = FullInfo
    /\ bmode \in {"collection", "zip"}
    /\ last = NoStep
    /\ repeated = FALSE
    /\ GenIdle
    /\ ExtIdle

\* zip_ref.extractall(extract_dir): every file of the archive is written under
\* the name it has in the archive, in the place of a file of that name; the
\* other files of the directory stay.
ExtractAll ==
    /\ \E lines \in UNION {[1..k -> SampleLines] : k \in 0..1} :
         LET archive == Bundle(RawName, lines, <<>>) IN
         results' = [x \in DOMAIN results \cup DOMAIN archive |->
                        IF x \in DOMAIN archive THEN archive[x] ELSE results[x]]
    /\ last' = [NoStep EXCEPT !.op = "extract", !.before = results]
    /\ repeated' = (last.op = "extract")
    /\ UNCHANGED <<system_info, bmode>>
    /\ UNCHANGED <<mainVars, zips, pmode, pf, genVars, extVars>>

ExtractSpec ==
    ExtractInit /\ [][ExtractAll \/ RenameFilesInDirectory \/ UpdateJsonWithSystemInfo]_vars

\* ---------------------------------------------------------------- file names
\* get_source_type on a name: the names of at most MaxName tokens, the empty
\* name included.
NameInit ==
    /\ MainIdle
    /\ zips = <<>>
    /\ pmode = "collection"
    /\ pf = NoCall
    /\ results = <<>>
    /\ system_info = <<>>
    /\ bmode \in {"collection", "zip"}
    /\ last = NoStep
    /\ repeated = FALSE
    /\ GenIdle
    /\ file_name \in UNION {[1..n -> {"a", ".", "json", "%2F"}] : n \in 0..MaxName}
    /\ doc = <<>>
    /\ profile = NoProfile
    /\ web = NoWeb
    /\ build = NoBuildDir
    /\ conn = NoConn

\* get_source_type(filename), by the implementation of the mode
GetSourceType ==
    /\ last' = [NoStep EXCEPT !.op = "source_type",
                              !.ret = source_type_of(bmode, file_name)]
    /\ repeated' = (last.op = "source_type")
    /\ UNCHANGED <<mainVars, zips, pmode, pf, results, system_info, bmode, genVars,
                   extVars>>

NameSpec == NameInit /\ [][GetSourceType]_vars

\* ---------------------------------------------------------------- system information
\* The basic-information document: a dict whose values are strings, dicts, or
\* lists of dicts, nested at most MaxNest deep, over a key that is extracted
\* and one that is not.
Dict(o) == [t |-> "dict", s |-> <<>>, items |-> o]

List(items) == [t |-> "list", s |-> <<>>, items |-> items]

RECURSIVE Docs(_)
Docs(depth) ==
    IF depth = 0 THEN {<<>>}
    ELSE LET values == {Str(<<"h1">>), Str(<<"h2">>)}
                       \cup {Dict(o) : o \in Docs(depth - 1)}
                       \cup {List(<<Dict(o)>>) : o \in Docs(depth - 1)}
             keys == {<<"Hostname">>, <<"Info">>}
         IN {<<>>}
            \cup {<<Pair(k, v)>> : k \in keys, v \in values}
            \cup {<<Pair(k1, v1), Pair(k2, v2)>> :
                     <<k1, k2>> \in {<<<<"Hostname">>, <<"Info">>>>, <<<<"Info">>, <<"Hostname">>>>},
                     <<v1, v2>> \in values \X values}

keys_to_extract ==
    {<<"Hostname">>, <<"OS">>, <<"Platform">>, <<"PlatformVersion">>, <<"Fqdn">>,
     <<"MACAddresses">>}

\* extract_system_info, the same text in collector_manager and in
\* process_zip_files: search_dict goes through the items of the dict in order;
\* the value of a key to extract is assigned to system_info[key], any other
\* value is searched when it is a dict, and its dict items when it is a list.
extract_system_info(basic_info) ==
    LET RECURSIVE search_dict(_, _), search_items(_, _)
        search_items(items, info) ==
            IF items = <<>> THEN info
            ELSE search_items(Tail(items),
                              IF items[1].t = "dict" THEN search_dict(items[1].items, info)
                              ELSE info)
        search_dict(d, info) ==
            IF d = <<>> THEN info
            ELSE search_dict(Tail(d),
                   IF d[1].k \in keys_to_extract THEN Set(info, d[1].k, d[1].v)
                   ELSE IF d[1].v.t = "dict" THEN search_dict(d[1].v.items, info)
                   ELSE IF d[1].v.t = "list" THEN search_items(d[1].v.items, info)
                   ELSE info)
    IN search_dict(basic_info, <<>>)

\* process_zip_files.collect_system_info: the value is taken only while the
\* key has none yet; a key that has one is treated as any other key.
collect_system_info(json_data) ==
    LET RECURSIVE search_dict(_, _), search_items(_, _)
        search_items(items, info) ==
            IF items = <<>> THEN info
            ELSE search_items(Tail(items),
                              IF items[1].t = "dict" THEN search_dict(items[1].items, info)
                              ELSE info)
        search_dict(d, info) ==
            IF d = <<>> THEN info
            ELSE search_dict(Tail(d),
                   IF d[1].k \in keys_to_extract /\ ~Has(info, d[1].k)
                   THEN Set(info, d[1].k, d[1].v)
                   ELSE IF d[1].v.t = "dict" THEN search_dict(d[1].v.items, info)
                   ELSE IF d[1].v.t = "list" THEN search_items(d[1].v.items, info)
                   ELSE info)
    IN search_dict(json_data, <<>>)

InfoInit ==
    /\ MainIdle
    /\ zips = <<>>
    /\ pmode = "collection"
    /\ pf = NoCall
    /\ results = <<>>
    /\ system_info = <<>>
    /\ bmode \in {"collection", "zip"}
    /\ last = NoStep
    /\ repeated = FALSE
    /\ GenIdle
    /\ file_name = <<>>
    /\ doc \in Docs(MaxNest)
    /\ profile = NoProfile
    /\ web = NoWeb
    /\ build = NoBuildDir
    /\ conn = NoConn

\* process_basic_information calling extract_system_info(basic_info)
ExtractSystemInfo ==
    /\ system_info' = extract_system_info(doc)
    /\ last' = [NoStep EXCEPT !.op = "extract_system_info"]
    /\ repeated' = (last.op = "extract_system_info")
    /\ UNCHANGED <<mainVars, zips, pmode, pf, results, bmode, genVars, extVars>>

\* collect_system_info(json_data), the function of process_zip_files
CollectSystemInfo ==
    /\ bmode = "zip"
    /\ system_info' = collect_system_info(doc)
    /\ last' = [NoStep EXCEPT !.op = "collect_system_info"]
    /\ repeated' = (last.op = "collect_system_info")
    /\ UNCHANGED <<mainVars, zips, pmode, pf, results, bmode, genVars, extVars>>

InfoSpec == InfoInit /\ [][ExtractSystemInfo \/ CollectSystemInfo]_vars

\* ---------------------------------------------------------------- profile runs
\* process_profile_artifacts on the worker thread that start_profile_testing
\* (use_architectury False) or start_architectury_testing started, the web
\* thread polling the status and possibly calling stop_processing.
ProfileInit ==
    /\ MainIdle
    /\ zips = <<>>
    /\ pmode = "collection"
    /\ pf = NoCall
    /\ results = <<>>
    /\ system_info = <<>>
    /\ bmode = "collection"
    /\ last = NoStep
    /\ repeated = FALSE
    /\ GenIdle
    /\ file_name = <<>>
    /\ doc = <<>>
    /\ \E u \in BOOLEAN, b \in BOOLEAN :
         profile = [NoProfile EXCEPT !.pc = "start", !.use_architectury = u,
                                     !.build_collectors = b]
    /\ web = NoWeb
    /\ build = NoBuildDir
    /\ conn = NoConn

\* collector_manager.update_status(text, is_error) on the manager of the run
Message(q, type, text) == [q EXCEPT !.messages = Append(@, [type |-> type, text |-> text])]

ProfileRest == UNCHANGED <<mainVars, zips, pmode, pf, results, system_info, bmode, last,
                           repeated, genVars, file_name, doc, web, build, conn>>

\* The head: status.update({'processing': True, ..., 'artifact_results': []})
\* and the first message.
ProfileBegin ==
    /\ profile.pc = "start"
    /\ profile' = Message([profile EXCEPT !.processing = TRUE, !.artifact_results = <<>>,
                                          !.pc = "combination"],
                          "info", "Processing artifacts")
    /\ ProfileRest

\* collector_manager.process_artifact_combination(...).  With use_architectury
\* the call passes use_architectury= and platform=, which the method does not
\* take: a TypeError.  Otherwise: the combined spec, and with build_collectors
\* the build and push_and_execute_collector; a failed step returns False,
\* after an 'error' message (reported) or, in the push, without one.  After
\* stop_processing the session is None and the push fails.
ProcessArtifactCombination ==
    /\ profile.pc = "combination"
    /\ IF profile.use_architectury
       THEN profile' = [profile EXCEPT !.pc = "except"]
       ELSE \E specOk \in BOOLEAN, buildOk \in BOOLEAN, reported \in BOOLEAN,
               pushOk \in (IF profile.stop = "done" THEN {FALSE} ELSE BOOLEAN) :
         LET b == profile.build_collectors
             done == IF ~specOk \/ ~b THEN <<"spec">>
                     ELSE IF ~buildOk THEN <<"spec", "build">>
                     ELSE <<"spec", "build", "push">>
             ok == specOk /\ (b => buildOk /\ pushOk)
             q == [profile EXCEPT !.steps = @ \o done, !.success = ok,
                                  !.step_failed = ~ok,
                                  !.pc = IF ok /\ b THEN "pull" ELSE "results"]
         IN profile' = IF ~ok /\ (Len(done) < 3 \/ reported)
                       THEN Message(q, "error", "step failed")
                       ELSE q
    /\ ProfileRest

\* if success and build_collectors: pull_collection_data()
ProfilePullData ==
    /\ profile.pc = "pull"
    /\ \E reported \in BOOLEAN,
          ok \in (IF profile.stop = "done" THEN {FALSE} ELSE BOOLEAN) :
         LET q == Message([profile EXCEPT !.steps = Append(@, "pull"),
                                          !.step_failed = ~ok,
                                          !.pc = IF ok THEN "process" ELSE "results"],
                          "info", "Pulling collection data...")
         IN profile' = IF ~ok /\ reported THEN Message(q, "error", "step failed") ELSE q
    /\ ProfileRest

\* process_collection_data(), and when it succeeds the analysis of ./runtime,
\* which starts with json_files = [] and reports the verification of
\* execution_output.txt when that file exists.
ProfileProcessData ==
    /\ profile.pc = "process"
    /\ \E ok \in BOOLEAN, output \in {"absent", "Exiting", "other"} :
         LET q == Message([profile EXCEPT !.steps = Append(@, "process"),
                                          !.step_failed = ~ok \/ output = "other",
                                          !.json_files = ok, !.pc = "results"],
                          "info", "Processing collection data...")
             a == Message(q, "info", "Analyzing JSON results...")
         IN profile' = IF ~ok THEN q
                       ELSE IF output = "absent" THEN a
                       ELSE IF output = "Exiting"
                       THEN Message(a, "info", "Execution verification passed")
                       ELSE Message(a, "error", "Execution verification failed")
    /\ ProfileRest

\* The statistics and result = {..., 'json_files': json_files}: a NameError
\* when json_files was never assigned; then status['artifact_results'] = [result].
StoreResults ==
    /\ profile.pc = "results"
    /\ profile' = IF profile.json_files
                  THEN [profile EXCEPT !.artifact_results = <<[success |-> profile.success]>>,
                                       !.pc = "completed"]
                  ELSE [profile EXCEPT !.pc = "except"]
    /\ ProfileRest

\* except Exception: the 'error' message.
ProfileExcept ==
    /\ profile.pc = "except"
    /\ profile' = Message([profile EXCEPT !.raised = TRUE, !.pc = "completed"],
                          "error", "Error processing artifacts")
    /\ ProfileRest

\* status['completed'] = True, in the try block and in the except clause
SetCompleted ==
    /\ profile.pc = "completed"
    /\ profile' = [profile EXCEPT !.completed = TRUE, !.pc = "processing"]
    /\ ProfileRest

\* status['processing'] = False, followed in the try block by the message
\* 'Processing completed'
ResetProcessing ==
    /\ profile.pc = "processing"
    /\ LET q == [profile EXCEPT !.processing = FALSE, !.pc = "done"] IN
       profile' = IF profile.raised THEN q ELSE Message(q, "info", "Processing completed")
    /\ ProfileRest

\* get_status() from the web thread: a copy of the status as it is now
PollStatus ==
    /\ profile' = [profile EXCEPT !.polled = [processing |-> profile.processing,
                                              completed |-> profile.completed]]
    /\ ProfileRest

\* stop_processing() from the web thread, while status['processing'] holds:
\* processing = False, then completed = True and the session set to None.
ProfileStop ==
    /\ \/ /\ profile.stop = "none"
          /\ profile.processing
          /\ profile' = [profile EXCEPT !.processing = FALSE, !.stop = "flag"]
       \/ /\ profile.stop = "flag"
          /\ profile' = [profile EXCEPT !.completed = TRUE, !.stop = "done"]
    /\ ProfileRest

ProfileNext ==
    \/ ProfileBegin
    \/ ProcessArtifactCombination
    \/ ProfilePullData
    \/ ProfileProcessData
    \/ StoreResults
    \/ ProfileExcept
    \/ SetCompleted
    \/ ResetProcessing
    \/ PollStatus
    \/ ProfileStop

ProfileSpec == ProfileInit /\ [][ProfileNext]_vars

\* ---------------------------------------------------------------- web endpoints
\* The global collector_manager of web_interface (0 is None, i the manager of
\* worker i), the worker threads the /start endpoint has started, each with
\* the status of its own manager, and the response of the last request.
WebInit ==
    /\ MainIdle
    /\ zips = <<>>
    /\ pmode = "collection"
    /\ pf = NoCall
    /\ results = <<>>
    /\ system_info = <<>>
    /\ bmode = "collection"
    /\ last = NoStep
    /\ repeated = FALSE
    /\ GenIdle
    /\ file_name = <<>>
    /\ doc = <<>>
    /\ profile = NoProfile
    /\ web = NoWeb
    /\ build = NoBuildDir
    /\ conn = NoConn

WebRest == UNCHANGED <<mainVars, zips, pmode, pf, results, system_info, bmode, last,
                       repeated, genVars, file_name, doc, profile, build, conn>>

\* collector_manager and collector_manager.status['processing']
InProgress ==
    /\ web.collector_manager # 0
    /\ web.workers[web.collector_manager].processing

\* POST /start: refused while the global manager shows processing; otherwise
\* the host and the artifact list are validated, a new CollectorManager(mode)
\* replaces the global one and a thread is started on its run().
start_processing ==
    /\ \E host \in BOOLEAN, hasArtifacts \in BOOLEAN, m \in Modes :
         IF InProgress
         THEN web' = [web EXCEPT !.response = "Processing already in progress"]
         ELSE IF ~host
         THEN web' = [web EXCEPT !.response = "No host selected"]
         ELSE IF ~hasArtifacts
         THEN web' = [web EXCEPT !.response = "No artifacts specified"]
         ELSE /\ Len(web.workers) < MaxWorkers
              /\ web' = [collector_manager |-> Len(web.workers) + 1,
                         workers |-> Append(web.workers,
                                            [mode |-> m, pc |-> "started",
                                             processing |-> FALSE,
                                             completed |-> FALSE]),
                         response |-> "started"]
    /\ WebRest

\* POST /stop: stop_processing() of the global manager when it shows
\* processing; the worker thread is not told.
stop_processing ==
    /\ web' = IF InProgress
              THEN [web EXCEPT !.workers[web.collector_manager].processing = FALSE,
                               !.workers[web.collector_manager].completed = TRUE,
                               !.response = "stopping"]
              ELSE [web EXCEPT !.response = "not_running"]
    /\ WebRest

\* The thread enters run(): in batch mode the head of run_batch_mode sets
\* processing; every other mode returns without touching the status.
WorkerRun ==
    /\ \E i \in 1..Len(web.workers) :
         /\ web.workers[i].pc = "started"
         /\ web' = IF web.workers[i].mode = "batch"
                   THEN [web EXCEPT !.workers[i].pc = "running",
                                    !.workers[i].processing = TRUE,
                                    !.workers[i].completed = FALSE]
                   ELSE [web EXCEPT !.workers[i].pc = "done"]
    /\ WebRest

\* The finally clause of run_batch_mode
WorkerFinally ==
    /\ \E i \in 1..Len(web.workers) :
         /\ web.workers[i].pc = "running"
         /\ web' = [web EXCEPT !.workers[i].pc = "done",
                               !.workers[i].processing = FALSE,
                               !.workers[i].completed = TRUE]
    /\ WebRest

WebNext ==
    \/ start_processing
    \/ stop_processing
    \/ WorkerRun
    \/ WorkerFinally

WebSpec == WebInit /\ [][WebNext]_vars

\* ---------------------------------------------------------------- collector files
\* The executable at the build tool's output location in VELO_DATASTORE and
\* the collectors directory.  A file is identified by the build call and the
\* artifact whose spec the tool wrote it from.  running[w] is the position of
\* worker w inside build_collector_exe.
BuildInit ==
    /\ MainIdle
    /\ zips = <<>>
    /\ pmode = "collection"
    /\ pf = NoCall
    /\ results = <<>>
    /\ system_info = <<>>
    /\ bmode = "collection"
    /\ last = NoStep
    /\ repeated = FALSE
    /\ GenIdle
    /\ file_name = <<>>
    /\ doc = <<>>
    /\ profile = NoProfile
    /\ web = NoWeb
    /\ build = NoBuildDir
    /\ conn = NoConn

BuildRest == UNCHANGED <<mainVars, zips, pmode, pf, results, system_info, bmode, last,
                         repeated, genVars, file_name, doc, profile, web, conn>>

\* clean_all_directories(): the spec directory, collectors, runtime_zip and
\* runtime are removed and recreated; VELO_DATASTORE is not in the list.
CleanDirectories ==
    /\ build' = [build EXCEPT !.collectors = [a \in Names |-> NoOutput]]
    /\ build.collectors # build'.collectors
    /\ BuildRest

\* build_collector_exe up to the return of subprocess.run: the tool exits
\* with returncode and has or has not written its output file.
RunBuildCommand ==
    /\ build.calls < MaxBuilds
    /\ \E w \in 1..MaxWorkers, a \in Names, returncode \in {0, 1}, wrote \in BOOLEAN :
         /\ build.running[w].pc = "idle"
         /\ LET n == build.calls + 1 IN
            build' = [build EXCEPT
                        !.calls = n,
                        !.datastore = IF wrote THEN [artifact |-> a, call |-> n] ELSE @,
                        !.running[w] = [pc |-> "ran", artifact |-> a, call |-> n,
                                        returncode |-> returncode]]
    /\ BuildRest

\* build_collector_exe after subprocess.run: with exit code 0 and a file at
\* source_collector, shutil.copy2 to collectors/collector_<name>.exe.
CopyCollector ==
    /\ \E w \in 1..MaxWorkers, copyOk \in BOOLEAN :
         LET r == build.running[w]
             copied == r.returncode = 0 /\ build.datastore # NoOutput /\ copyOk
         IN /\ r.pc = "ran"
            /\ build' = [build EXCEPT
                           !.running[w] = NoBuildDir.running[w],
                           !.collectors[r.artifact] = IF copied THEN build.datastore ELSE @,
                           !.last = IF copied
                                    THEN [artifact |-> r.artifact, call |-> r.call,
                                          origin |-> build.datastore]
                                    ELSE [artifact |-> r.artifact, call |-> r.call,
                                          origin |-> NoOutput]]
    /\ BuildRest

BuildNext ==
    \/ CleanDirectories
    \/ RunBuildCommand
    \/ CopyCollector

BuildSpec == BuildInit /\ [][BuildNext]_vars

\* ---------------------------------------------------------------- SSH connections
\* copy_and_verify_file, the log pull of push_and_execute_collector and
\* pull_files_by_pattern: ssh = create_ssh_client(...), then
\* try: sftp = ssh.open_sftp() ... finally: sftp.close(); ssh.close().
\* ssh is "none", "open" or "closed"; sftp is "unbound" until assigned.
TransferOps == {"copy_and_verify_file", "push_and_execute_collector", "pull_files_by_pattern"}

SshInit ==
    /\ MainIdle
    /\ zips = <<>>
    /\ pmode = "collection"
    /\ pf = NoCall
    /\ results = <<>>
    /\ system_info = <<>>
    /\ bmode = "collection"
    /\ last = NoStep
    /\ repeated = FALSE
    /\ GenIdle
    /\ file_name = <<>>
    /\ doc = <<>>
    /\ profile = NoProfile
    /\ web = NoWeb
    /\ build = NoBuildDir
    /\ conn = NoConn

SshRest == UNCHANGED <<mainVars, zips, pmode, pf, results, system_info, bmode, last,
                       repeated, genVars, file_name, doc, profile, web, build>>

\* ssh = self.create_ssh_client(credentials); if not ssh: return False
CreateSshClient ==
    /\ conn.pc = "idle"
    /\ conn.ops < MaxOps
    /\ \E op \in TransferOps, connected \in BOOLEAN :
         conn' = IF connected
                 THEN [NoConn EXCEPT !.op = op, !.pc = "try", !.ssh = "open",
                                     !.ops = conn.ops + 1, !.last = conn.last]
                 ELSE [NoConn EXCEPT !.ops = conn.ops + 1,
                                     !.last = [op |-> op, ssh |-> "none", ret |-> "False"]]
    /\ SshRest

\* sftp = ssh.open_sftp(): the first statement of the try block
OpenSftp ==
    /\ conn.pc = "try"
    /\ \E opened \in BOOLEAN :
         conn' = IF opened
                 THEN [conn EXCEPT !.sftp = "open", !.pc = "body"]
                 ELSE [conn EXCEPT !.raised = TRUE, !.pc = "finally"]
    /\ SshRest

\* The rest of the try block.  copy_and_verify_file catches a raising put
\* and returns False, else returns the verification result;
\* pull_files_by_pattern catches each raising get and returns True; in
\* push_and_execute_collector a raising get propagates, else the result of
\* check_execution_output is returned.
TransferBody ==
    /\ conn.pc = "body"
    /\ \E raises \in BOOLEAN, checked \in BOOLEAN :
         conn' = IF conn.op = "pull_files_by_pattern"
                 THEN [conn EXCEPT !.ret = "True", !.pc = "finally"]
                 ELSE IF ~raises
                 THEN [conn EXCEPT !.ret = BoolStr(checked), !.pc = "finally"]
                 ELSE IF conn.op = "copy_and_verify_file"
                 THEN [conn EXCEPT !.ret = "False", !.pc = "finally"]
                 ELSE [conn EXCEPT !.raised = TRUE, !.pc = "finally"]
    /\ SshRest

\* finally: sftp.close(); ssh.close().  With sftp unbound the first
\* statement raises NameError and ssh.close() is not reached; the outer
\* except Exception returns False.
TransferFinally ==
    /\ conn.pc = "finally"
    /\ LET closed == conn.sftp # "unbound"
           ssh == IF closed THEN "closed" ELSE conn.ssh
           ret == IF conn.raised \/ ~closed THEN "False" ELSE conn.ret
       IN conn' = [NoConn EXCEPT !.ops = conn.ops,
                                 !.last = [op |-> conn.op, ssh |-> ssh, ret |-> ret]]
    /\ SshRest

SshNext ==
    \/ CreateSshClient
    \/ OpenSftp
    \/ TransferBody
    \/ TransferFinally

SshSpec == SshInit /\ [][SshNext]_vars

\* ---------------------------------------------------------------- spec file calls
\* A template of up to MaxTemplate lines, each with none, one or both of the
\* marker texts, or a template that cannot be read.
GenInit ==
    /\ MainIdle
    /\ zips = <<>>
    /\ pmode = "collection"
    /\ pf = NoCall
    /\ results = <<>>
    /\ system_info = <<>>
    /\ bmode = "collection"
    /\ last = NoStep
    /\ repeated = FALSE
    /\ \E readable \in BOOLEAN :
       \E marks \in UNION {[1..n -> SUBSET {"The list of artifacts and their args.",
                                            "Can be ZIP"}] : n \in 0..MaxTemplate} :
         /\ ~readable => marks = <<>>
         /\ template = [readable |-> readable,
                        lines |-> [i \in DOMAIN marks |-> TemplateLine(i, marks[i])]]
    /\ spec_file = NoSpecFile
    /\ tree = <<>>
    /\ stream = NoStream
    /\ ExtIdle

CreateSpecFile ==
    /\ \E artifact \in Names, writeOk \in BOOLEAN :
         spec_file' = create_spec_file(template, artifact, writeOk)
    /\ UNCHANGED <<mainVars, zips, pmode, pf, results, system_info, bmode, last,
                   repeated, template, tree, stream, extVars>>

CreateCombinedSpecFile ==
    /\ \E list \in UNION {[1..n -> Names] : n \in 0..MaxArtifacts}, writeOk \in BOOLEAN :
         spec_file' = create_combined_spec_file(template, list, writeOk)
    /\ UNCHANGED <<mainVars, zips, pmode, pf, results, system_info, bmode, last,
                   repeated, template, tree, stream, extVars>>

GenSpec == GenInit /\ [][CreateSpecFile \/ CreateCombinedSpecFile]_vars

\* ---------------------------------------------------------------- directory trees
\* rename_files_in_directory on an extracted tree.  A directory is a function
\* from the names of its entries to the entries; an entry is a file, or a
\* directory with its own entries.
\* The trees of at most the given depth over the two names 'a%2Fb' and 'a.b'.
RECURSIVE Trees(_)
Trees(depth) ==
    IF depth = 0 THEN {<<>>}
    ELSE UNION {[S -> {[dir |-> FALSE, sub |-> <<>>]}
                      \cup {[dir |-> TRUE, sub |-> t] : t \in Trees(depth - 1)}] :
                S \in SUBSET {<<"a", "%2F", "b">>, <<"a", ".", "b">>}}

\* CollectorManager.rename_files_in_directory: the files of every depth
\* first, then the directories, the deepest first; an entry whose new name
\* exists is skipped.
cm_rename_tree(t) ==
    LET RECURSIVE files(_), dirs(_)
        files(level) ==
            LET deep == [n \in DOMAIN level |->
                           IF level[n].dir THEN [level[n] EXCEPT !.sub = files(@)]
                           ELSE level[n]]
            IN RenameFiles("collection", deep,
                           {n \in EscapedFiles(deep) : ~deep[n].dir}, {})
        dirs(level) ==
            LET deep == [n \in DOMAIN level |->
                           IF level[n].dir THEN [level[n] EXCEPT !.sub = dirs(@)]
                           ELSE level[n]]
            IN RenameFiles("collection", deep,
                           {n \in EscapedFiles(deep) : deep[n].dir}, {})
    IN dirs(files(t))

\* process_zip_files.rename_files_in_directory: os.walk from the top; in each
\* directory the files are renamed, then the directories, and the walk then
\* descends into the directories by the names they had when the directory was
\* listed.  A rename onto an existing name raises, or (replace) puts the entry
\* in the place of an existing file or empty directory of the same sort.
pzf_rename_tree(t, replace) ==
    LET RECURSIVE walk(_)
        walk(level) ==
            LET dirnames == {n \in DOMAIN level : level[n].dir}
                raisesF == {n \in EscapedFiles(level) :
                              /\ new_name(n) \in DOMAIN level
                              /\ (level[new_name(n)].dir \/ ~replace)}
                filesDone == RenameFiles("zip", level,
                                 {n \in EscapedFiles(level) : ~level[n].dir}, raisesF)
                raisesD == {n \in EscapedFiles(filesDone) :
                              /\ new_name(n) \in DOMAIN filesDone
                              /\ \/ ~filesDone[new_name(n)].dir
                                 \/ filesDone[new_name(n)].sub # <<>>
                                 \/ ~replace}
                dirsDone == RenameFiles("zip", filesDone,
                                {n \in EscapedFiles(filesDone) : filesDone[n].dir}, raisesD)
            IN [n \in DOMAIN dirsDone |->
                  IF n \in dirnames /\ dirsDone[n].dir
                  THEN [dirsDone[n] EXCEPT !.sub = walk(@)]
                  ELSE dirsDone[n]]
    IN walk(t)

TreeInit ==
    /\ MainIdle
    /\ zips = <<>>
    /\ pmode = "collection"
    /\ pf = NoCall
    /\ results = <<>>
    /\ system_info = <<>>
    /\ bmode \in {"collection", "zip"}
    /\ last = NoStep
    /\ repeated = FALSE
    /\ template = [readable |-> FALSE, lines |-> <<>>]
    /\ spec_file = NoSpecFile
    /\ tree \in Trees(MaxDepth)
    /\ stream = NoStream
    /\ ExtIdle

\* rename_files_in_directory(directory), by the implementation of the mode
RenameTree ==
    /\ \E replace \in BOOLEAN :
         tree' = IF bmode = "collection" THEN cm_rename_tree(tree)
                 ELSE pzf_rename_tree(tree, replace)
    /\ last' = [NoStep EXCEPT !.op = "rename"]
    /\ repeated' = (last.op = "rename")
    /\ UNCHANGED <<mainVars, zips, pmode, pf, results, system_info, bmode,
                   template, spec_file, stream, extVars>>

TreeSpec == TreeInit /\ [][RenameTree]_vars

\* ---------------------------------------------------------------- status stream
\* update_status and get_status on one manager.  update_status is called by
\* the worker thread (run_batch_mode and the steps it calls) and by the web
\* thread (stop_processing); each call puts its message on progress_queue and
\* then appends it to status['messages'].  get_status is called by the poller.
StreamInit ==
    /\ MainIdle
    /\ PureIdle

\* update_status, up to self.progress_queue.put(status_update)
UpdateStatusPut(c) ==
    /\ stream.calling[c] = <<>>
    /\ Len(stream.messages) + Len(stream.progress_queue) < MaxMessages
    /\ \E is_error \in BOOLEAN :
         LET status_update == [type |-> IF is_error THEN "error" ELSE "info",
                               by |-> c,
                               no |-> Len(SelectSeq(stream.messages, LAMBDA x : x.by = c)) + 1]
         IN stream' = [stream EXCEPT !.progress_queue = Append(@, status_update),
                                     !.calling[c] = <<status_update>>]
    /\ UNCHANGED <<mainVars, zips, pmode, pf, results, system_info, bmode, last,
                   repeated, template, spec_file, tree, extVars>>

\* update_status: self.status['messages'].append(status_update)
UpdateStatusAppend(c) ==
    /\ stream.calling[c] # <<>>
    /\ stream' = [stream EXCEPT !.messages = Append(@, stream.calling[c][1]),
                                !.calling[c] = <<>>]
    /\ UNCHANGED <<mainVars, zips, pmode, pf, results, system_info, bmode, last,
                   repeated, template, spec_file, tree, extVars>>

\* get_status emptying status['messages'] as it empties the queue
GetStatus_DrainsMessages ==
    /\ stream' = [stream EXCEPT !.progress_queue = <<>>, !.messages = <<>>,
                                !.polled = stream.messages]
    /\ UNCHANGED <<mainVars, zips, pmode, pf, results, system_info, bmode, last,
                   repeated, template, spec_file, tree, extVars>>

\* get_status: the pending queue is emptied and a copy of self.status, with
\* the message list, is returned.
GetStatus ==
    /\ stream' = [stream EXCEPT !.progress_queue = <<>>, !.polled = stream.messages]
    /\ UNCHANGED <<mainVars, zips, pmode, pf, results, system_info, bmode, last,
                   repeated, template, spec_file, tree, extVars>>

StreamNext ==
    \/ \E c \in {"worker", "web"} : UpdateStatusPut(c)
    \/ \E c \in {"worker", "web"} : UpdateStatusAppend(c)
    \/ GetStatus

StreamSpec == StreamInit /\ [][StreamNext]_vars

\* ---------------------------------------------------------------- properties
AtEnd == pc \in {"finally", "done"}

InArtifact == pc \in {"spec", "build", "push", "exec", "check_log", "pull_log",
                      "verify", "returned"}

AllSucceeded == Len(rets) = Len(artifacts) /\ \A i \in 1..Len(rets) : rets[i]

EntriesFor(list, i) == {k \in 1..Len(list) : list[k].pos = i}

\* C1: every artifact of the list is processed, in list order, whatever failed
\* before it: process_single_artifact is entered for positions 1, 2, ... in
\* turn, and once the loop is left it has been entered for every position.
C1_AllArtifactsProcessed ==
    /\ IsPrefix(entered, [i \in Positions |-> i])
    /\ Len(rets) <= Len(entered)
    /\ (setup_done /\ ~(InArtifact \/ pc = "loop")) => Len(entered) = Len(artifacts)
    /\ (pc = "loop" /\ idx > Len(artifacts)) => Len(entered) = Len(artifacts)

C1_Witness ==
    /\ pc = "done"
    /\ Len(artifacts) = 3
    /\ rets = <<FALSE, FALSE, TRUE>>
    /\ entered = <<1, 2, 3>>

\* C2: with build_collectors the steps of an artifact are attempted in the
\* fixed order, each at most once, a step only after every earlier step
\* succeeded; a failed step is the last step of the artifact, which is then
\* recorded as failed and never as successful, now and in every later state.
C2_StepsInOrder ==
    /\ build_collectors => IsPrefix(cur.steps, StepOrder)
    /\ Len(cur.oks) = Len(cur.steps)
    /\ \A k \in 1..(Len(cur.oks) - 1) : cur.oks[k]
    /\ (pc = "returned" /\ ~Last(cur.oks)) => ~rets[idx]
    /\ \A i \in 1..Len(rets) :
         ~rets[i] => /\ EntriesFor(status.failed, i) # {}
                     /\ EntriesFor(status.successful, i) = {}

C2_Witness ==
    /\ build_collectors
    /\ pc = "returned"
    /\ cur.steps = <<"spec", "build", "push", "exec", "check_log">>
    /\ cur.oks = <<TRUE, TRUE, TRUE, TRUE, FALSE>>
    /\ EntriesFor(status.failed, idx) # {}

\* C3: when the run got past cleaning and connection initialisation, at its
\* end every list position has exactly one statistics entry, in 'successful' or
\* in 'failed', and processed = len(successful) + len(failed) = total_artifacts.
C3_OneEntryPerArtifact ==
    (AtEnd /\ setup_done) =>
        /\ \A i \in Positions :
             Cardinality(EntriesFor(status.successful, i))
               + Cardinality(EntriesFor(status.failed, i)) = 1
        /\ \A k \in 1..Len(status.successful) :
             /\ status.successful[k].pos \in Positions
             /\ status.successful[k].name = artifacts[status.successful[k].pos]
        /\ \A k \in 1..Len(status.failed) :
             /\ status.failed[k].pos \in Positions
             /\ status.failed[k].name = artifacts[status.failed[k].pos]
        /\ status.processed = Len(status.successful) + Len(status.failed)
        /\ status.processed = status.total_artifacts
        /\ status.total_artifacts = Len(artifacts)

C3_Witness ==
    /\ pc = "done"
    /\ Len(artifacts) = 3
    /\ Len(status.successful) = 2
    /\ Len(status.failed) = 1
    /\ status.failed[1].pos = 2
    /\ status.processed = 3

\* C4: run_batch_mode returns True exactly when every artifact was processed
\* successfully and, with build_collectors, pull_collection_data and
\* process_collection_data were both called and both returned True.
C4_ReturnValue ==
    pc = "done" =>
        /\ result \in {"True", "False"}
        /\ (result = "True") <=>
             /\ AllSucceeded
             /\ build_collectors =>
                  /\ batch.pull_calls = 1 /\ batch.pull_ret
                  /\ batch.process_calls = 1 /\ batch.process_ret
        /\ ~build_collectors => (result = "True") = AllSucceeded

C4_Witness ==
    /\ pc = "done"
    /\ result = "True"
    /\ build_collectors
    /\ Len(artifacts) >= 2

\* C5: the batch-level pull of the bundles and their processing each run at
\* most once, the processing after the pull, and both only after the last
\* artifact has finished: never while an artifact is processed or pending.
C5_BatchPullOnce ==
    /\ batch.pull_calls <= 1
    /\ batch.process_calls <= 1
    /\ batch.process_calls <= batch.pull_calls
    /\ (batch.pull_calls > 0 \/ batch.process_calls > 0 \/ runtime.bundles # {}) =>
         /\ Len(rets) = Len(artifacts)
         /\ ~InArtifact
         /\ idx > Len(artifacts)
    /\ pc \in {"pull_data", "process_data"} => Len(rets) = Len(artifacts)

C5_Witness ==
    /\ pc = "done"
    /\ Len(artifacts) >= 2
    /\ batch.pull_calls = 1
    /\ batch.process_calls = 1

\* C6: in a run with build_collectors where one artifact was verified and
\* another failed, the bundles of the verified artifacts have been pulled and
\* normalized when the run ends.
C6_GoodResultsKept ==
    (/\ pc = "done"
     /\ build_collectors
     /\ \E i \in 1..Len(rets) : rets[i]
     /\ \E j \in 1..Len(rets) : ~rets[j])
    => \A i \in 1..Len(rets) :
         rets[i] => (i \in runtime.bundles /\ i \in batch.normalized)

\* C7: a push succeeds only if the file was transferred and the remote file's
\* size and SHA-256 equal the local ones; a differing size, a differing hash or
\* a remote value that cannot be obtained fails the push, and the collector is
\* executed only after a successful push.
C7_PushVerified ==
    LET x == cur.xfer IN
    /\ x.result =>
         /\ x.transferred
         /\ x.remote_size = x.local_size
         /\ x.remote_hash.digest = x.local_hash.digest
         /\ x.size_obtained /\ x.hash_obtained
    /\ (x.called /\ ~x.result /\ pc = "returned") => ~rets[idx]
    /\ (\E k \in 1..Len(cur.steps) : cur.steps[k] = "exec") => x.result
    /\ cur.ex.called => x.result

C7_Witness ==
    LET x == cur.xfer IN
    /\ pc = "returned"
    /\ x.transferred
    /\ x.remote_size = x.local_size
    /\ x.remote_hash.digest # x.local_hash.digest
    /\ x.size_obtained /\ x.hash_obtained
    /\ ~x.result
    /\ ~cur.ex.called

\* C8: the log is pulled only after the remote command returned status 0 with
\* "Success" in its output and one Test-Path, made after one pause, found the
\* log; there is never a second pause or a second check, and in every other
\* case the artifact fails without a log pull.
C8_ExecutionComplete ==
    LET e == cur.ex
        complete == /\ ~e.raised /\ e.status_code = 0
                    /\ Contains(e.stdout, "Success")
                    /\ e.pauses = 1 /\ e.checks = 1 /\ e.log_found
        pullAttempted == \/ pc \in {"pull_log", "verify"}
                         \/ cur.pulled_log
                         \/ \E k \in 1..Len(cur.steps) : cur.steps[k] = "pull_log"
    IN
    /\ e.pauses <= 1 /\ e.checks <= 1 /\ e.checks <= e.pauses
    /\ pullAttempted => complete
    /\ (e.called /\ ~complete /\ pc = "returned") =>
         /\ ~rets[idx]
         /\ ~cur.pulled_log
         /\ \A k \in 1..Len(cur.steps) : cur.steps[k] # "pull_log"

C8_Witness ==
    /\ pc = "returned"
    /\ cur.ex.status_code = 0
    /\ Contains(cur.ex.stdout, "Success")
    /\ cur.ex.pauses = 1
    /\ cur.ex.checks = 1
    /\ ~cur.ex.log_found
    /\ ~rets[idx]

\* C9: with build_collectors an artifact is recorded as successful only if the
\* log checked was pulled for that artifact, was readable and contains
\* "Exiting"; a log without the token, or unreadable, fails the artifact even
\* though every earlier step succeeded.
C9_ExitingRequired ==
    LET l == cur.checked IN
    /\ (build_collectors /\ pc = "returned" /\ rets[idx]) =>
         /\ cur.steps = StepOrder
         /\ l.present /\ l.name = artifacts[idx] /\ l.origin = idx
         /\ l.readable
         /\ Contains(l.text, "Exiting")
         /\ EntriesFor(status.successful, idx) # {}
    /\ (pc = "returned" /\ Len(cur.steps) = Len(StepOrder)
          /\ (~l.readable \/ ~Contains(l.text, "Exiting"))) =>
         /\ ~rets[idx]
         /\ EntriesFor(status.failed, idx) # {}
         /\ EntriesFor(status.successful, idx) = {}

C9_Witness ==
    /\ pc = "returned"
    /\ cur.steps = StepOrder
    /\ cur.oks = <<TRUE, TRUE, TRUE, TRUE, TRUE, TRUE, FALSE>>
    /\ cur.checked.readable
    /\ ~Contains(cur.checked.text, "Exiting")
    /\ EntriesFor(status.failed, idx) # {}

\* C10: build_collector_exe returns a path only if spec, binary and config
\* existed, the tool was invoked and exited with code 0, and its output file
\* existed and was copied; the tool is not invoked when an input is missing;
\* exit code 0 without the output file, and a non-zero exit code, are failures
\* of the artifact.
C10_BuildResult ==
    LET b == cur.bld IN
    /\ b.path =>
         /\ b.specExists /\ b.binExists /\ b.cfgExists
         /\ b.invoked /\ ~b.raised /\ b.returncode = 0
         /\ b.outExists /\ b.copied
    /\ b.invoked => (b.specExists /\ b.binExists /\ b.cfgExists)
    /\ (b.called /\ ~b.path) => (pc = "returned" /\ ~rets[idx])
    /\ (\E k \in 1..Len(cur.steps) : cur.steps[k] = "push") => b.path

C10_Witness ==
    /\ pc = "returned"
    /\ cur.bld.invoked
    /\ ~cur.bld.raised
    /\ cur.bld.returncode = 0
    /\ ~cur.bld.outExists
    /\ ~cur.bld.path
    /\ ~rets[idx]

\* C11: pull_files_by_pattern, and so pull_collection_data, is successful
\* whenever the cleaning, the listing and the SFTP session went through: a file
\* whose pull fails is skipped, and a listing of zero files is a success too.
C11_PullSucceeds ==
    (/\ batch.pull_calls = 1
     /\ batch.pull.clean
     /\ batch.pull.list = "ok"
     /\ batch.pull.ssh \in {"ok", "unused"})
    => batch.pull_ret

\* C12: in one process_files pass, an archive that cannot be opened or
\* extracted stops only its own processing: every archive that can be opened
\* is extracted and, when its basic information is there, normalized and
\* validated.
C12_OnlyBadBundleAborted ==
    pf.called =>
        \A i \in 1..Len(zips) :
            zips[i].opens =>
                /\ i \in pf.extracted
                /\ zips[i].info => (i \in pf.normalized /\ i \in pf.validated)

\* C18: in process_zip mode process_files returns True when every archive
\* extracts and every bundle validates without an issue, and False when the
\* validator found an issue in some bundle.
C18_CleanSignal ==
    (pf.called /\ pmode = "zip" /\ zips # <<>>) =>
        /\ (\A i \in 1..Len(zips) : zips[i].opens /\ zips[i].info /\ zips[i].clean) => pf.ret
        /\ (\E i \in pf.validated : ~zips[i].clean) => ~pf.ret

\* C19: when every artifact was verified and the bundles were pulled,
\* extracted and normalized, run_batch_mode returns True whatever the validator
\* reported.
C19_ValidationDiagnostic ==
    (/\ pc = "done"
     /\ build_collectors
     /\ AllSucceeded
     /\ batch.pull_ret
     /\ batch.process_calls = 1
     /\ runtime.bundles # {}
     /\ batch.process.extracted = runtime.bundles
     /\ batch.process.normalized = runtime.bundles)
    => result = "True"

\* What enrichment is to make of a record of file n: its source_type is the
\* type derived from the file name and every key of the SystemInfo is there
\* with the SystemInfo's value.
IsEnriched(n, o) ==
    /\ Get(o, SourceTypeKey) = Str(source_type_of(bmode, n))
    /\ \A j \in 1..Len(system_info) :
         Has(o, system_info[j].k) /\ Get(o, system_info[j].k) = system_info[j].v

ObjectLines(f) == {i \in 1..Len(Stripped(f.lines)) : Stripped(f.lines)[i].kind = "object"}

\* C13: after update_json_with_system_info has run, every line that is a JSON
\* object, in every readable results file other than the basic-information
\* file, has the source_type derived from its file name and every key of the
\* SystemInfo with the SystemInfo's value.
C13_RecordsEnriched ==
    last.op = "enrich" =>
        \A n \in ResultFiles(results) :
            results[n].readable =>
                \A i \in ObjectLines(results[n]) :
                    IsEnriched(n, Stripped(results[n].lines)[i].obj)

\* C14: during enrichment a line that is no JSON object is written back as it
\* was, and keeps no other line of its file and no other file of the bundle
\* from being enriched.
C14_BadLineTolerated ==
    last.op = "enrich" =>
        \A n \in ResultFiles(last.before) :
            last.before[n].readable =>
                LET old == Stripped(last.before[n].lines)
                    new == Stripped(results[n].lines)
                IN /\ Len(new) = Len(old)
                   /\ \A i \in 1..Len(old) :
                        IF old[i].kind = "object"
                        THEN new[i].kind = "object" /\ IsEnriched(n, new[i].obj)
                        ELSE new[i] = old[i]

\* C15: running the enricher a second time with the same SystemInfo leaves
\* every file of the bundle as the first run left it.
C15_EnrichIdempotent ==
    (last.op = "enrich" /\ repeated) => results = last.before

C15_Witness ==
    /\ last.op = "enrich"
    /\ repeated
    /\ \E n \in last.written :
         /\ ObjectLines(results[n]) # {}
         /\ \E i \in 1..Len(results[n].lines) : results[n].lines[i].kind = "text"
         /\ \A i \in ObjectLines(results[n]) : IsEnriched(n, results[n].lines[i].obj)

\* C16 as stated: a second run of the timestamp canonicalizer over an
\* already-converted bundle writes no file at all.
C16_NoWriteOnRerun ==
    (last.op = "timestamps" /\ repeated) => (last.written = {} /\ last.rewritten = {})

\* C16 amended: a second run of the timestamp canonicalizer changes no file's
\* content and its heuristic pass writes no file; the known-key pass rewrites
\* the files it can read with the content they have.
C16_RerunKeepsContent ==
    (last.op = "timestamps" /\ repeated) =>
        /\ results = last.before
        /\ last.rewritten = {}

C16_Witness ==
    /\ last.op = "timestamps"
    /\ repeated
    /\ \E n \in last.written :
       \E i \in ObjectLines(results[n]) :
         LET o == results[n].lines[i].obj IN
         /\ Get(o, <<"visit", "_", "time", "_", "epoch">>) = EpochOf(Iso.s)
         /\ Get(o, <<"Modified", "_", "epoch">>) = EpochOf(Iso.s)

\* C17: for every record of a readable results file the validator reports a
\* missing-keys issue exactly when a required key is absent, naming exactly
\* the absent keys; no issue names a required key that is present with a
\* non-empty value; a record with every required key but Fqdn, its source_type
\* matching the file name, gets the one issue missing-keys {Fqdn}.
C17_MissingKeysExact ==
    last.op = "validate" =>
        \A n \in ResultFiles(results) :
            results[n].readable =>
                \A i \in ObjectLines(results[n]) :
                    LET o == Stripped(results[n].lines)[i].obj
                        missing == required_keys \ Keys(o)
                        mine == {x \in last.issues : x.file = n /\ x.line = i}
                        present == {key \in Keys(o) : Get(o, key) \notin {Null, Str(<<>>)}}
                    IN /\ {x \in mine : x.kind = "missing-keys"}
                            = IF missing = {} THEN {}
                              ELSE {Issue(n, i, "missing-keys", missing)}
                       /\ \A x \in mine : x.keys \cap present = {}
                       /\ (/\ missing = {<<"Fqdn">>}
                           /\ required_keys \ missing \subseteq present
                           /\ Get(o, SourceTypeKey) = Str(source_type_of(bmode, n)))
                          => mine = {Issue(n, i, "missing-keys", {<<"Fqdn">>})}

\* The last dot-separated segment of a name before its '.json' suffix.
LastSegment(name) ==
    Last(Split(IF Len(name) >= 2 /\ SubSeq(name, Len(name) - 1, Len(name)) = DotJson
               THEN SubSeq(name, 1, Len(name) - 2) ELSE name, "."))

\* C20: a renamed file has every '%2F' of its name replaced by '.'; the source
\* type derived from the renamed name is its last dot-separated segment before
\* '.json', and it is the source type the enricher and the validator derive
\* for the name not yet renamed.
C20_SourceTypeAgrees ==
    /\ last.op = "rename" =>
         \A n \in DOMAIN last.before \ DOMAIN results :
             new_name(n) \in DOMAIN results /\ ~Occurs(Escaped, new_name(n))
    /\ last.op \in {"enrich", "validate"} =>
         \A n \in ResultFiles(results) :
             /\ source_type_of(bmode, new_name(n)) = LastSegment(new_name(n))
             /\ source_type_of(bmode, n) = source_type_of(bmode, new_name(n))

\* C21: when both markers are found, the generated spec is the template up to
\* and including the line after the start marker, one enabled block per
\* artifact in list order, the Generic.Client.Info block, and the template
\* from the end marker on; header and trailer are the template's lines, no
\* template line appears twice, and there is one block per artifact plus the
\* client-info block.
C21_SpecLayout ==
    spec_file.path =>
        LET t == template.lines
            c == spec_file.content
            S == spec_file.artifacts
            h == spec_file.start + 1
            body == 2 * Len(S) + 2
            names == [i \in 1..(Len(S) + 1) |-> c[h + 2 * i - 1]]
        IN /\ Len(c) = h + body + (Len(t) - spec_file.end + 1)
           /\ SubSeq(c, 1, h) = SubSeq(t, 1, h)
           /\ SubSeq(c, h + body + 1, Len(c)) = SubSeq(t, spec_file.end, Len(t))
           /\ \A i \in 1..(Len(S) + 1) :
                /\ names[i].kind = "name"
                /\ names[i].name = (IF i <= Len(S) THEN S[i] ELSE "Generic.Client.Info")
                /\ c[h + 2 * i].kind = "all"
           /\ \A i, j \in 1..Len(c) :
                (c[i].kind = "template" /\ c[j].kind = "template" /\ c[i].at = c[j].at)
                    => i = j
           /\ Cardinality({i \in 1..Len(c) : c[i].kind = "name"}) = Len(S) + 1

\* C22: spec generation returns no path and writes nothing when the start
\* marker is absent, when the end marker is absent, or when the end marker
\* comes before the start marker; when it succeeds, the start marker position
\* used is strictly below the end marker position used.
C22_MarkersRequired ==
    spec_file.called # "none" =>
        LET t == template.lines
            starts == {i \in 1..Len(t) : "The list of artifacts and their args." \in t[i].marks}
            ends == {i \in 1..Len(t) : "Can be ZIP" \in t[i].marks}
        IN /\ (\/ starts = {}
               \/ ends = {}
               \/ \E e \in ends : \A x \in starts : e < x)
              => (~spec_file.path /\ spec_file.content = <<>>)
           /\ spec_file.path => (0 < spec_file.start /\ spec_file.start < spec_file.end)

C22_Witness ==
    /\ spec_file.called = "single"
    /\ ~spec_file.path
    /\ \E i, j \in 1..Len(template.lines) :
         /\ i < j
         /\ template.lines[i].marks = {"Can be ZIP"}
         /\ template.lines[j].marks = {"The list of artifacts and their args."}

\* C30: after rename_files_in_directory, by either implementation, no file
\* and no directory at any depth still has '%2F' in its name, unless the name
\* with every '%2F' replaced by '.' exists beside it.
C30_TreeRenamed ==
    LET RECURSIVE settled(_)
        settled(level) ==
            \A n \in DOMAIN level :
                /\ Occurs(Escaped, n) => new_name(n) \in DOMAIN level
                /\ level[n].dir => settled(level[n].sub)
    IN last.op = "rename" => settled(tree)

\* C27: status['messages'] is an append-only history: every step either
\* leaves the list as it is, or appends at its end the one message of an
\* update_status call that completes; get_status, which empties the queue,
\* leaves the list as it is and returns all of it.
C27_AppendOnly ==
    [][/\ \/ stream.messages' = stream.messages
          \/ \E c \in {"worker", "web"} :
               /\ stream.calling[c] # <<>>
               /\ stream.calling'[c] = <<>>
               /\ stream.messages' = Append(stream.messages, stream.calling[c][1])
       /\ stream.polled' # stream.polled =>
            (stream.messages' = stream.messages /\ stream.polled' = stream.messages)]_vars

C27_Witness ==
    /\ Len(stream.messages) = MaxMessages
    /\ stream.polled = stream.messages
    /\ stream.progress_queue = <<>>
    /\ \E i, j \in 1..Len(stream.messages) :
         /\ i < j
         /\ stream.messages[i].by = "web"
         /\ stream.messages[j].by = "worker"
         /\ stream.messages[j].type = "error"

\* C28: every artifact recorded as failed had at least one message of type
\* 'error' appended to the status stream while it was processed.
C28_FailureReported ==
    (pc = "returned" /\ ~Last(rets)) => cur.error

\* C23: when build_collectors is set and initialize_connections finds host,
\* username or password missing, the run fails before any remote action: no
\* artifact is processed, the remote host is not touched (no command, no
\* transfer, no cleanup), and an error message naming the missing credentials
\* has been emitted.
C23_MissingCredentialsFatal ==
    (build_collectors /\ batch.missing # {}) =>
        /\ pc \in {"finally", "done"}
        /\ result = "False"
        /\ entered = <<>>
        /\ ~winrm_session
        /\ batch.cleanups = 0
        /\ batch.pull_calls = 0
        /\ remoteLog = [n \in Names |-> 0]
        /\ remoteBundles = {}
        /\ ErrorMessage("Missing required credentials", batch.missing) \in batch.errors

C23_Witness ==
    /\ pc = "done"
    /\ build_collectors
    /\ batch.missing = {"host", "password"}
    /\ status.completed

\* C24: once the template could not be read, nothing more happens in the run
\* but its end: no further artifact is entered and no remote command,
\* transfer or remote cleanup is issued.
C24_UnreadableTemplateFatal ==
    [][batch.unreadable =>
          /\ entered' = entered
          /\ batch'.cleanups = batch.cleanups
          /\ batch'.pull_calls = batch.pull_calls
          /\ remoteLog' = remoteLog
          /\ remoteBundles' = remoteBundles]_vars

\* C29: in a run with build_collectors, the remote cleanup of earlier
\* temporary files has been performed by the time a collector is pushed.
C29_CleanupBeforePush ==
    (build_collectors /\ cur.xfer.called) => batch.cleanups > 0

\* C25: CollectorManager.run never raises.  In every mode, with or without
\* artifacts, it ends with the boolean True or False; an exception raised in a
\* step of one artifact (the build tool, the execution command, the pause
\* before the log check) makes that artifact return False with one entry in
\* 'failed' for it and no other, every entry of 'failed' belonging to an
\* artifact that itself returned False, and the run goes on.
C25_RunReturnsBoolean ==
    /\ pc = "done" => result \in {"True", "False"}
    /\ pc # "done" => result \in {"none", "True", "False"}
    /\ (pc = "returned"
        /\ (cur.bld.raised \/ cur.ex.raised \/ (cur.ex.pauses = 1 /\ cur.ex.checks = 0)))
       => /\ ~Last(rets)
          /\ Len(rets) = idx
          /\ result = "none"
          /\ Last(status.failed) = [name |-> artifacts[idx], pos |-> idx]
          /\ Cardinality({k \in 1..Len(status.failed) : status.failed[k].pos = idx}) = 1
          /\ \A k \in 1..Len(status.failed) : ~rets[status.failed[k].pos]
          /\ \A k \in 1..Len(status.successful) : rets[status.successful[k].pos]

\* An exception in the second artifact's execution, the first having succeeded.
C25_Witness ==
    /\ self_mode = "batch"
    /\ pc = "returned"
    /\ idx = 2
    /\ cur.ex.raised
    /\ rets = <<TRUE, FALSE>>
    /\ Len(status.successful) = 1
    /\ Len(status.failed) = 1

\* C26: once stop_processing has been called while the worker was inside an
\* artifact, no further artifact is entered: the number of artifacts that
\* entered process_single_artifact stays what it was at the request.
C26_NoArtifactAfterStop ==
    (batch.stop.made
     /\ batch.stop.pc \in {"spec", "build", "push", "exec", "check_log", "pull_log",
                           "verify", "returned"})
    => Len(entered) = batch.stop.entered

\* C31: rename_files_in_directory never overwrites: a '%2F'-named file whose
\* dotted name exists in the directory is left where it is, and both files
\* have after the renaming the content they had before, in collection mode and
\* in process_zip mode.
C31_NeverOverwrites ==
    last.op = "rename" =>
        \A n \in EscapedFiles(last.before) :
            new_name(n) \in DOMAIN last.before =>
                /\ n \in DOMAIN results
                /\ results[n] = last.before[n]
                /\ results[new_name(n)] = last.before[new_name(n)]

\* C32: get_source_type returns the last dot-separated segment of the name
\* without its '.json' suffix, and 'Unknown' for a name that is empty once the
\* suffix is removed.
C32_SourceTypeOrUnknown ==
    last.op = "source_type" =>
        last.ret = IF file_name \in {<<>>, DotJson} THEN <<"Unknown">>
                   ELSE LastSegment(file_name)

\* C33: the system information holds, for each key to extract that occurs in
\* the document, the value of its first occurrence in the depth-first search
\* (through nested dicts and the dicts of lists), and nothing for a key that
\* does not occur; a later occurrence never replaces an earlier one.
C33_FirstOccurrenceWins ==
    LET RECURSIVE occurrences(_), in_items(_)
        in_items(items) ==
            IF items = <<>> THEN <<>>
            ELSE (IF items[1].t = "dict" THEN occurrences(items[1].items) ELSE <<>>)
                 \o in_items(Tail(items))
        occurrences(d) ==
            IF d = <<>> THEN <<>>
            ELSE (IF d[1].k \in keys_to_extract THEN <<d[1]>>
                  ELSE IF d[1].v.t = "dict" THEN occurrences(d[1].v.items)
                  ELSE IF d[1].v.t = "list" THEN in_items(d[1].v.items)
                  ELSE <<>>)
                 \o occurrences(Tail(d))
        found == occurrences(doc)
    IN last.op \in {"extract_system_info", "collect_system_info"} =>
         /\ Keys(system_info) = Keys(found)
         /\ \A key \in Keys(found) :
               Get(system_info, key)
                 = found[CHOOSE i \in 1..Len(found) :
                           found[i].k = key /\ \A j \in 1..(i - 1) : found[j].k # key].v

\* C34: an Architectury run with build_collectors in which no step failed
\* went through spec, build and push, then the pull and the processing, and
\* ends completed with no 'error' message.
C34_ArchitecturyUsesSteps ==
    (profile.pc = "done" /\ profile.use_architectury /\ profile.build_collectors
     /\ profile.stop = "none" /\ ~profile.step_failed)
    => /\ profile.steps = <<"spec", "build", "push", "pull", "process">>
       /\ profile.completed
       /\ \A i \in 1..Len(profile.messages) : profile.messages[i].type # "error"

\* C36: what get_status shows never has completed and processing both True.
C36_CompletedNotProcessing ==
    profile.polled.completed => ~profile.polled.processing

\* C40: a profile run that has ended stored exactly one result record, its
\* last message is 'Processing completed', and it emitted no 'error' message
\* when no step failed.
C40_OneResultRecord ==
    (profile.pc = "done" /\ ~profile.use_architectury /\ profile.stop = "none")
    => /\ Len(profile.artifact_results) = 1
       /\ Last(profile.messages) = [type |-> "info", text |-> "Processing completed"]
       /\ ~profile.step_failed =>
            \A i \in 1..Len(profile.messages) : profile.messages[i].type # "error"

\* C35: at most one batch worker is active at any time.
C35_OneBatchWorker ==
    Cardinality({i \in 1..Len(web.workers) :
                    web.workers[i].mode = "batch" /\ web.workers[i].pc # "done"}) <= 1

\* C37: a run started on a worker with a non-empty artifact list eventually
\* shows completed = True and processing = False, whatever the mode.
C37_RunEventuallyCompleted ==
    artifacts # <<>> => <>(status.completed /\ ~status.processing)

\* C38: the collector copied for an artifact is the file the tool wrote from
\* that artifact's spec during the same build call.
C38_CollectorOfThisBuild ==
    build.last.origin # NoOutput =>
        build.last.origin = [artifact |-> build.last.artifact, call |-> build.last.call]

\* C39: no transfer operation returns with the SSH connection it opened
\* still open.
C39_ConnectionsClosed ==
    conn.last.ssh # "open"
====
